---- MODULE Spec2Model ----
(***************************************************************************)
(* Serving-table assembly (kythe/go/serving/xrefs/assemble/assemble.go).   *)
(*                                                                         *)
(* This module models the paged-set builders: EdgeSetBuilder and           *)
(* CrossReferencesBuilder, both thin adapters over pager.SetPager, and the *)
(* edge-kind comparator edgeKindLess they sort with.                       *)
(*                                                                         *)
(* Representation.                                                         *)
(*   - An edge kind is a Go string on which the code does byte-level work  *)
(*     (prefix tests, lexicographic <), so a kind is a sequence of byte    *)
(*     values (ASCII codes).                                               *)
(*   - Tickets, page keys, fact names and fact values are only compared    *)
(*     for equality and concatenated, so they are TLA+ strings.            *)
(*   - An edge of an EdgeGroup (an anchor of a cross-reference group) is   *)
(*     identified by its position in the input of its source: the i-th     *)
(*     edge handed to AddGroup since the last StartEdgeSet is the integer  *)
(*     i.                                                                  *)
(***************************************************************************)
EXTENDS Integers, Sequences, FiniteSets, TLC

\* Go's nil for a pointer or interface: an option is <<>> (nil) or <<v>>.
None    == <<>>
Some(v) == <<v>>

(***************************************************************************)
(* Bounds of the model.                                                    *)
(***************************************************************************)
\* Number of builder calls (StartEdgeSet / AddGroup / Flush) in a run.
MaxCalls == 5

\* Sizes of the groups the caller hands to AddGroup.
GroupSizes == {1, 2}

\* Values of MaxEdgePageSize / MaxPageSize the builder is configured with.
PageSizes == {-1, 0, 1, 2, 3}

(***************************************************************************)
(* Byte strings.                                                           *)
(***************************************************************************)
HasPrefix(s, p) == Len(s) >= Len(p) /\ SubSeq(s, 1, Len(p)) = p

Min(a, b) == IF a <= b THEN a ELSE b

\* Go's s < t on strings: bytewise lexicographic order.
StrLess(s, t) ==
  \E i \in 1..(Min(Len(s), Len(t)) + 1) :
     /\ \A j \in 1..(i - 1) : s[j] = t[j]
     /\ \/ i = Len(s) + 1 /\ i <= Len(t)
        \/ i <= Len(s) /\ i <= Len(t) /\ s[i] < t[i]

IsDigit(c) == c >= 48 /\ c <= 57

ToLower(s) == [i \in 1..Len(s) |-> IF s[i] >= 65 /\ s[i] <= 90 THEN s[i] + 32 ELSE s[i]]

(***************************************************************************)
(* Schema vocabulary (package schema).                                     *)
(***************************************************************************)
EdgePrefix    == <<47, 107, 121, 116, 104, 101, 47, 101, 100, 103, 101, 47>> \* "/kythe/edge/"
ChildOfEdge   == EdgePrefix \o <<99, 104, 105, 108, 100, 111, 102>>           \* childof
DefinesEdge   == EdgePrefix \o <<100, 101, 102, 105, 110, 101, 115>>          \* defines
DocumentsEdge == EdgePrefix \o <<100, 111, 99, 117, 109, 101, 110, 116, 115>> \* documents
RefEdge       == EdgePrefix \o <<114, 101, 102>>                              \* ref
NamedEdge     == EdgePrefix \o <<110, 97, 109, 101, 100>>                     \* named
TypedEdge     == EdgePrefix \o <<116, 121, 112, 101, 100>>                    \* typed
DefinesBindingEdge == DefinesEdge \o <<47, 98, 105, 110, 100, 105, 110, 103>> \* defines/binding

reverseEdgePrefix == <<37>>  \* "%"

CompleteFact == "/kythe/complete"
NodeKindFact == "/kythe/node/kind"

Forward == "Forward"
Reverse == "Reverse"

\* direction(kind): reverse iff the kind carries the reverse marker.
EdgeDirection(kind) == IF HasPrefix(kind, reverseEdgePrefix) THEN Reverse ELSE Forward

\* mirror(kind): toggle the reverse marker.
MirrorEdge(kind) ==
  IF HasPrefix(kind, reverseEdgePrefix)
    THEN SubSeq(kind, Len(reverseEdgePrefix) + 1, Len(kind))
    ELSE reverseEdgePrefix \o kind

\* Whether kind[i..] is a "." followed by one or more digits up to the end.
IsOrdinalAt(kind, i) ==
  /\ kind[i] = 46
  /\ \A j \in (i + 1)..Len(kind) : IsDigit(kind[j])

\* parseOrdinal(kind): the base kind, without a trailing ".<nonneg-int>".
StripOrdinal(kind) ==
  IF \E i \in 2..(Len(kind) - 1) : IsOrdinalAt(kind, i)
    THEN SubSeq(kind, 1, (CHOOSE i \in 2..(Len(kind) - 1) : IsOrdinalAt(kind, i)) - 1)
    ELSE kind

\* canonicalize(kind): lowercase, strip ordinal, strip reverse marker.
Canonicalize(kind) ==
  LET k == StripOrdinal(ToLower(kind))
  IN IF EdgeDirection(k) = Reverse THEN MirrorEdge(k) ELSE k

\* isEdgeVariant(kind, root): kind equals root or extends it by a
\* "/"-separated (e.g. defines/binding) or dotted suffix.
IsEdgeVariant(kind, root) ==
  \/ kind = root
  \/ HasPrefix(kind, root \o <<47>>)
  \/ HasPrefix(kind, root \o <<46>>)

\* isAnchorEdge(kind): defines, documents, ref, their variants and reverses.
IsAnchorEdge(kind) ==
  LET k == Canonicalize(kind)
  IN \/ IsEdgeVariant(k, DefinesEdge)
     \/ IsEdgeVariant(k, DocumentsEdge)
     \/ IsEdgeVariant(k, RefEdge)

(***************************************************************************)
(* Edge-kind order (assemble.go).                                          *)
(***************************************************************************)
\* Variant of edgeOrdering: documents before defines.
edgeOrdering_DocumentsFirst == <<DocumentsEdge, DefinesEdge, RefEdge, NamedEdge, TypedEdge>>

edgeOrdering == <<DefinesEdge, DocumentsEdge, RefEdge, NamedEdge, TypedEdge>>

\* The loop of edgeKindLess over edgeOrdering[i..], on canonicalized kinds.
RECURSIVE orderingLoop(_, _, _)
orderingLoop(i, kind1, kind2) ==
  IF i > Len(edgeOrdering) THEN StrLess(kind1, kind2)
  ELSE LET kind == edgeOrdering[i]
           v1 == IsEdgeVariant(kind1, kind)
           v2 == IsEdgeVariant(kind2, kind)
       IN IF kind1 = kind THEN TRUE
          ELSE IF kind2 = kind THEN FALSE
          ELSE IF v1 # v2 THEN v1
          ELSE IF v1 THEN StrLess(kind1, kind2)
          ELSE orderingLoop(i + 1, kind1, kind2)

edgeKindLess(kind1, kind2) ==
  IF kind1 = kind2 THEN FALSE
  ELSE IF IsAnchorEdge(kind1) # IsAnchorEdge(kind2) THEN IsAnchorEdge(kind1)
  ELSE IF EdgeDirection(kind1) # EdgeDirection(kind2) THEN EdgeDirection(kind1) = Forward
  ELSE orderingLoop(1, Canonicalize(kind1), Canonicalize(kind2))

(***************************************************************************)
(* Go library behaviour used by the builders.                              *)
(***************************************************************************)
\* int32(x): conversion of an int to a 32-bit signed integer.
\* (Wraps once around; written without 2^32, which exceeds the checker's integers.)
Int32(x) ==
  IF x > 2147483647 THEN ((x - 2147483647) - 2147483647) - 2
  ELSE IF x < -2147483647 - 1 THEN ((x + 2147483647) + 2147483647) + 2
  ELSE x

RECURSIVE Zeros(_)
Zeros(n) == IF n <= 0 THEN "" ELSE "0" \o Zeros(n - 1)

\* fmt's %.10d: the decimal digits of n, zero-padded to at least 10 digits.
FormatD10(n) ==
  IF n < 0 THEN "-" \o Zeros(10 - Len(ToString(-n))) \o ToString(-n)
  ELSE Zeros(10 - Len(ToString(n))) \o ToString(n)

\* Variant of newPageKey: the ordinal is not zero-padded.
newPageKey_Unpadded(src, n) == src \o "." \o ToString(n)

newPageKey(src, n) == src \o "." \o FormatD10(n)

byPageKind(a, b)    == edgeKindLess(a.EdgeKind, b.EdgeKind)
byEdgeKind(a, b)    == edgeKindLess(a.Kind, b.Kind)
byRefPageKind(a, b) == edgeKindLess(a.Kind, b.Kind)
byRefKind(a, b)     == edgeKindLess(a.Kind, b.Kind)

\* Variant of byOrdinal: by ticket first, then by ordinal.
byOrdinal_TicketFirst(a, b) ==
  IF a.Ticket = b.Ticket THEN a.Ordinal < b.Ordinal ELSE StrLess(a.Ticket, b.Ticket)

\* byOrdinal.Less on EdgeTargets: by ordinal, then by ticket.
byOrdinal(a, b) ==
  IF a.Ordinal = b.Ordinal THEN StrLess(a.Ticket, b.Ticket) ELSE a.Ordinal < b.Ordinal

\* Position of a fact name in the bytewise order of the schema's fact names.
FactNameRank(name) ==
  CASE name = "/kythe/complete"       -> 1
    [] name = "/kythe/loc/end"        -> 2
    [] name = "/kythe/loc/start"      -> 3
    [] name = "/kythe/node/kind"      -> 4
    [] name = "/kythe/snippet/end"    -> 5
    [] name = "/kythe/snippet/start"  -> 6
    [] name = "/kythe/subkind"        -> 7
    [] name = "/kythe/text"           -> 8
    [] name = "/kythe/text/encoding"  -> 9

\* xrefs.ByName.Less on facts: by name.
ByName(a, b) == FactNameRank(a.Name) < FactNameRank(b.Name)

\* sort.Interface.Less of the slice type named by.
Less(by, a, b) ==
  CASE by = "byOrdinal"     -> byOrdinal(a, b)
    [] by = "ByName"        -> ByName(a, b)
    [] by = "byPageKind"    -> byPageKind(a, b)
    [] by = "byEdgeKind"    -> byEdgeKind(a, b)
    [] by = "byRefPageKind" -> byRefPageKind(a, b)
    [] by = "byRefKind"     -> byRefKind(a, b)

\* sort.Sort on a short slice is an insertion sort: element j sinks while it
\* is Less than its left neighbour.
RECURSIVE insertionSink(_, _, _)
insertionSink(by, t, j) ==
  IF j > 1 /\ Less(by, t[j], t[j - 1])
    THEN insertionSink(by, [t EXCEPT ![j] = t[j - 1], ![j - 1] = t[j]], j - 1)
    ELSE t

RECURSIVE insertionSort(_, _, _)
insertionSort(by, t, i) ==
  IF i > Len(t) THEN t ELSE insertionSort(by, insertionSink(by, t, i), i + 1)

Sort(by, s) == insertionSort(by, s, 2)

\* GetFact: the value of the first fact with the given name; Go's nil result,
\* which every caller converts with string(), is "".
GetFact(facts, name) ==
  LET hits == {i \in 1..Len(facts) : facts[i].Name = name}
  IN IF hits = {} THEN ""
     ELSE facts[CHOOSE i \in hits : \A j \in hits : i <= j].Value

(***************************************************************************)
(* State.                                                                  *)
(***************************************************************************)
EdgeSetBuilder         == "EdgeSetBuilder"
CrossReferencesBuilder == "CrossReferencesBuilder"

VARIABLES
  builder,      \* which builder type this instance is
  MaxPageSize,  \* EdgeSetBuilder.MaxEdgePageSize / CrossReferencesBuilder.MaxPageSize
  pager,        \* b.pager: None, or Some([curSet, groups, total]) (the SetPager's state)
  \* History of the calls made and the outputs received, for stating properties.
  heads,        \* the source nodes given to StartEdgeSet / StartSet, in call order
  added,        \* the groups given to AddGroup for the current set, in call order
  pages,        \* the pages OutputPage accepted for the current set, in order
  done,         \* Some(the set Output accepted in the last call, with its inputs), or None
  log,          \* every accepted output: [fn, ticket, run], run = index into heads
  failed,       \* some callback has returned an error
  runFailed,    \* some callback has returned an error since the current set was started
  calls,        \* number of builder calls made
  last          \* the last call: [op, err, cb], cb = the callback calls it made ([fn, ok])

pagerVars == <<builder, MaxPageSize, pager, heads, added, pages, done, log, failed,
               runFailed, calls, last>>

VARIABLES
  anchor,       \* DecorationFragmentBuilder.anchor: None or Some(RawAnchor)
  decor,        \* DecorationFragmentBuilder.decor
  parents,      \* DecorationFragmentBuilder.parents
  \* History of the DecorationFragmentBuilder, for stating properties.
  dout,         \* every call of b.Output, in order: [file, fragment, ok]
  dops          \* every AddEdge / Flush call, in order: [op, e, pre, from, err]

decorVars == <<anchor, decor, parents, dout, dops>>

VARIABLES
  args,         \* the arguments of a pure function under test, or None
  result        \* None, or Some(its result for args)

pureVars == <<args, result>>

vars == <<pagerVars, decorVars, pureVars>>

\* The DecorationFragmentBuilder as constructed, before any call.
DecorIdle ==
  /\ anchor = None
  /\ decor = <<>>
  /\ parents = <<>>
  /\ dout = <<>>
  /\ dops = <<>>

\* No pure function is under test.
PureIdle ==
  /\ args = None
  /\ result = None

\* The source nodes of the input stream, in stream order (sorted by ticket).
NodeStream ==
 << [Ticket |-> "kythe://c#a", Fact |-> <<[Name |-> CompleteFact, Value |-> "definition"]>>],
    [Ticket |-> "kythe://c#b", Fact |-> <<[Name |-> CompleteFact, Value |-> "incomplete"]>>],
    [Ticket |-> "kythe://c#c", Fact |-> <<[Name |-> NodeKindFact, Value |-> "record"]>>] >>

\* The kinds of the groups of the input stream.
GroupKinds == {RefEdge, ChildOfEdge}

(***************************************************************************)
(* EdgeSetBuilder.constructPager: the callbacks given to the SetPager.     *)
(***************************************************************************)
EdgeSet_NewSet(hd) ==
  [Source |-> hd, Group |-> <<>>, PageIndex |-> <<>>, TotalEdges |-> 0]

\* Variant of EdgeSet_Combine: the new edges are put in front.
EdgeSet_Combine_Prepend(l, r) ==
  IF l.Kind # r.Kind THEN None ELSE Some([l EXCEPT !.Edge = r.Edge \o l.Edge])

\* Variant of EdgeSet_Combine: groups are never merged.
EdgeSet_Combine_Never(l, r) == None

EdgeSet_Combine(l, r) ==
  IF l.Kind # r.Kind THEN None ELSE Some([l EXCEPT !.Edge = l.Edge \o r.Edge])

EdgeSet_Split(sz, g) ==
  << [Kind |-> g.Kind, Edge |-> SubSeq(g.Edge, 1, sz)],
     [g EXCEPT !.Edge = SubSeq(g.Edge, sz + 1, Len(g.Edge))] >>

EdgeSet_Size(g) == Len(g.Edge)

\* Variant of EdgeSet_OutputSet: totalEdges counts the groups, not the edges.
EdgeSet_OutputSet_GroupCount(total, s, grps) ==
  [s EXCEPT !.Group      = Sort("byEdgeKind", grps),
            !.PageIndex  = Sort("byPageKind", s.PageIndex),
            !.TotalEdges = Int32(Len(grps))]

\* Variant of EdgeSet_OutputSet: the page index is left in emission order.
EdgeSet_OutputSet_NoIndexSort(total, s, grps) ==
  [s EXCEPT !.Group      = Sort("byEdgeKind", grps),
            !.TotalEdges = Int32(total)]

\* The PagedEdgeSet handed to b.Output.
EdgeSet_OutputSet(total, s, grps) ==
  [s EXCEPT !.Group      = Sort("byEdgeKind", grps),
            !.PageIndex  = Sort("byPageKind", s.PageIndex),
            !.TotalEdges = Int32(total)]

\* Variant of EdgeSet_OutputPage: the page carries its key as source ticket.
EdgeSet_OutputPage_KeyAsTicket(s, g, ok) ==
  LET src == s.Source.Ticket
      key == newPageKey(src, Len(s.PageIndex))
  IN [page |-> [PageKey |-> key, SourceTicket |-> key, EdgesGroup |-> g],
      set  |-> IF ok
                 THEN [s EXCEPT !.PageIndex =
                         Append(@, [PageKey   |-> key,
                                    EdgeKind  |-> g.Kind,
                                    EdgeCount |-> Int32(Len(g.Edge))])]
                 ELSE s]

\* Variant of EdgeSet_OutputPage: the index entry is keyed by the ordinal
\* after the append.
EdgeSet_OutputPage_IndexKeyNext(s, g, ok) ==
  LET src == s.Source.Ticket
      key == newPageKey(src, Len(s.PageIndex))
  IN [page |-> [PageKey |-> key, SourceTicket |-> src, EdgesGroup |-> g],
      set  |-> IF ok
                 THEN [s EXCEPT !.PageIndex =
                         Append(@, [PageKey   |-> newPageKey(src, Len(s.PageIndex) + 1),
                                    EdgeKind  |-> g.Kind,
                                    EdgeCount |-> Int32(Len(g.Edge))])]
                 ELSE s]

\* Variant of OutputPage: the page index is appended before b.OutputPage is
\* called.
EdgeSet_OutputPage_IndexFirst(s, g, ok) ==
  LET src == s.Source.Ticket
      key == newPageKey(src, Len(s.PageIndex))
  IN [page |-> [PageKey |-> key, SourceTicket |-> src, EdgesGroup |-> g],
      set  |-> [s EXCEPT !.PageIndex =
                  Append(@, [PageKey   |-> key,
                             EdgeKind  |-> g.Kind,
                             EdgeCount |-> Int32(Len(g.Edge))])]]

\* page: the EdgePage handed to b.OutputPage; set: the set afterwards, given
\* whether b.OutputPage succeeded (ok).
EdgeSet_OutputPage(s, g, ok) ==
  LET src == s.Source.Ticket
      key == newPageKey(src, Len(s.PageIndex))
  IN [page |-> [PageKey |-> key, SourceTicket |-> src, EdgesGroup |-> g],
      set  |-> IF ok
                 THEN [s EXCEPT !.PageIndex =
                         Append(@, [PageKey   |-> key,
                                    EdgeKind  |-> g.Kind,
                                    EdgeCount |-> Int32(Len(g.Edge))])]
                 ELSE s]

(***************************************************************************)
(* CrossReferencesBuilder.constructPager.                                  *)
(***************************************************************************)
\* Variant of CrossRefs_NewSet: incomplete unless the complete fact's value,
\* empty when the node has none, is "definition".
CrossRefs_NewSet_UnlessDefinition(n) ==
  [SourceTicket |-> n.Ticket,
   Incomplete   |-> GetFact(n.Fact, CompleteFact) # "definition",
   Group |-> <<>>, PageIndex |-> <<>>, TotalReferences |-> 0]

CrossRefs_NewSet(n) ==
  [SourceTicket |-> n.Ticket,
   Incomplete   |-> \E i \in 1..Len(n.Fact) :
                       n.Fact[i].Name = CompleteFact /\ n.Fact[i].Value # "definition",
   Group |-> <<>>, PageIndex |-> <<>>, TotalReferences |-> 0]

CrossRefs_Combine(l, r) ==
  IF l.Kind # r.Kind THEN None ELSE Some([l EXCEPT !.Anchor = l.Anchor \o r.Anchor])

CrossRefs_Split(sz, g) ==
  << [Kind |-> g.Kind, Anchor |-> SubSeq(g.Anchor, 1, sz)],
     [g EXCEPT !.Anchor = SubSeq(g.Anchor, sz + 1, Len(g.Anchor))] >>

CrossRefs_Size(g) == Len(g.Anchor)

CrossRefs_OutputSet(total, s, grps) ==
  [s EXCEPT !.Group           = Sort("byRefKind", grps),
            !.PageIndex       = Sort("byRefPageKind", s.PageIndex),
            !.TotalReferences = Int32(total)]

\* The page index is appended before b.OutputPage is called.
CrossRefs_OutputPage(s, g, ok) ==
  LET key == newPageKey(s.SourceTicket, Len(s.PageIndex))
  IN [page |-> [PageKey |-> key, SourceTicket |-> s.SourceTicket, Group |-> g],
      set  |-> [s EXCEPT !.PageIndex =
                  Append(@, [PageKey |-> key,
                             Kind    |-> g.Kind,
                             Count   |-> Int32(Len(g.Anchor))])]]

\* The SetPager's callback fields, as set by the builder's constructPager.
NewSet(hd)     == IF builder = EdgeSetBuilder THEN EdgeSet_NewSet(hd) ELSE CrossRefs_NewSet(hd)
Combine(l, r)  == IF builder = EdgeSetBuilder THEN EdgeSet_Combine(l, r) ELSE CrossRefs_Combine(l, r)
Split(sz, g)   == IF builder = EdgeSetBuilder THEN EdgeSet_Split(sz, g) ELSE CrossRefs_Split(sz, g)
Size(g)        == IF builder = EdgeSetBuilder THEN EdgeSet_Size(g) ELSE CrossRefs_Size(g)
OutputSet(total, s, grps) ==
  IF builder = EdgeSetBuilder THEN EdgeSet_OutputSet(total, s, grps)
  ELSE CrossRefs_OutputSet(total, s, grps)
OutputPage(s, g, ok) ==
  IF builder = EdgeSetBuilder THEN EdgeSet_OutputPage(s, g, ok) ELSE CrossRefs_OutputPage(s, g, ok)

(***************************************************************************)
(* pager.SetPager.  A call returns [p, out, err]: the pager afterwards,    *)
(* the calls it made to the builder's Output / OutputPage ([fn, arg, ok]), *)
(* and whether it returned an error.  failAt = k > 0 makes the k-th such   *)
(* call of this operation return an error; failAt = 0 makes none fail.     *)
(***************************************************************************)
EmptyPager == [curSet |-> None, groups |-> <<>>, total |-> 0]

\* Flush: emit the buffered groups as one OutputSet call, then reset.
SetPager_Flush(p, failAt) ==
  IF p.curSet = None THEN [p |-> p, out |-> <<>>, err |-> FALSE]
  ELSE [p   |-> EmptyPager,
        out |-> << [fn  |-> "Output",
                    arg |-> OutputSet(p.total, p.curSet[1], p.groups),
                    ok  |-> failAt # 1] >>,
        err |-> failAt = 1]

\* StartSet: flush the current set, then begin a new one for hd.
SetPager_StartSet(p, hd, failAt) ==
  LET f == SetPager_Flush(p, failAt)
  IN IF f.err THEN f ELSE [f EXCEPT !.p = [EmptyPager EXCEPT !.curSet = Some(NewSet(hd))]]

\* While the tail group holds at least MaxPageSize elements, split a page off
\* its front and emit it.
RECURSIVE SetPager_evict(_, _, _)
SetPager_evict(p, out, failAt) ==
  LET n    == Len(p.groups)
      tail == p.groups[n]
  IN IF MaxPageSize > 0 /\ Size(tail) >= MaxPageSize
       THEN LET sp   == Split(MaxPageSize, tail)
                ok   == failAt # Len(out) + 1
                r    == OutputPage(p.curSet[1], sp[1], ok)
                p1   == [p EXCEPT !.curSet = Some(r.set), !.groups[n] = sp[2]]
                out1 == Append(out, [fn |-> "OutputPage", arg |-> r.page, ok |-> ok])
            IN IF ok THEN SetPager_evict(p1, out1, failAt)
               ELSE [p |-> p1, out |-> out1, err |-> TRUE]
       ELSE [p |-> p, out |-> out, err |-> FALSE]

\* AddGroup: merge g into the last buffered group if they combine, else
\* append it; count its size into total; then page the tail.
SetPager_AddGroup(p, g, failAt) ==
  LET n  == Len(p.groups)
      c  == IF n > 0 THEN Combine(p.groups[n], g) ELSE None
      gs == IF c # None THEN [p.groups EXCEPT ![n] = c[1]] ELSE Append(p.groups, g)
  IN SetPager_evict([p EXCEPT !.groups = gs, !.total = p.total + Size(g)], <<>>, failAt)

(***************************************************************************)
(* The builders' operations.                                               *)
(***************************************************************************)
Init ==
  /\ builder \in {EdgeSetBuilder, CrossReferencesBuilder}
  /\ MaxPageSize \in PageSizes
  /\ pager = None
  /\ heads = <<>>
  /\ added = <<>>
  /\ pages = <<>>
  /\ done = None
  /\ log = <<>>
  /\ failed = FALSE
  /\ runFailed = FALSE
  /\ calls = 0
  /\ last = [op |-> "new", err |-> FALSE, cb |-> <<>>]
  /\ DecorIdle
  /\ PureIdle

\* Elements of a group (edges of an EdgeGroup, anchors of a cross-reference group).
Elems(g) == IF builder = EdgeSetBuilder THEN g.Edge ELSE g.Anchor

RECURSIVE CountElems(_)
CountElems(gs) == IF gs = <<>> THEN 0 ELSE Len(Elems(Head(gs))) + CountElems(Tail(gs))

\* The next group of the input stream: n further elements of the given kind.
InputGroup(kind, n) ==
  LET first == CountElems(added)
      elems == [i \in 1..n |-> first + i]
  IN IF builder = EdgeSetBuilder THEN [Kind |-> kind, Edge |-> elems]
     ELSE [Kind |-> kind, Anchor |-> elems]

\* The source ticket an emitted set or page carries.
TicketOf(c) ==
  IF c.fn = "Output" /\ builder = EdgeSetBuilder THEN c.arg.Source.Ticket
  ELSE c.arg.SourceTicket

RECURSIVE Accepted(_)
Accepted(out) ==
  IF out = <<>> THEN <<>>
  ELSE (IF Head(out).ok THEN <<Head(out)>> ELSE <<>>) \o Accepted(Tail(out))

Logged(out) ==
  LET acc == Accepted(out)
  IN [i \in 1..Len(acc) |-> [fn |-> acc[i].fn, ticket |-> TicketOf(acc[i]), run |-> Len(heads)]]

Callbacks(out) == [i \in 1..Len(out) |-> [fn |-> out[i].fn, ok |-> out[i].ok]]

\* Bookkeeping of a call that closes the current set (StartSet, Flush).
Closed(op, r) ==
  /\ done' = IF r.out # <<>> /\ r.out[1].ok
               THEN Some([head   |-> heads[Len(heads)],
                          added  |-> added,
                          pages  |-> pages,
                          set    |-> r.out[1].arg,
                          failed |-> runFailed])
               ELSE None
  /\ log' = log \o Logged(r.out)
  /\ added' = <<>>
  /\ pages' = <<>>
  /\ runFailed' = FALSE
  /\ failed' = (failed \/ r.err)
  /\ calls' = calls + 1
  /\ last' = [op |-> op, err |-> r.err, cb |-> Callbacks(r.out)]

\* Variant of StartSet: b.pager is constructed anew on every call.
StartSet_Reconstruct(src, failAt) ==
  /\ calls < MaxCalls
  /\ LET r == SetPager_StartSet(EmptyPager, src, failAt)
     IN /\ pager' = Some(r.p)
        /\ heads' = Append(heads, src)
        /\ Closed("StartSet", r)
  /\ UNCHANGED <<builder, MaxPageSize>>

\* b.pager is constructed on the first call.
StartSet(src, failAt) ==
  /\ calls < MaxCalls
  /\ LET p == IF pager = None THEN EmptyPager ELSE pager[1]
         r == SetPager_StartSet(p, src, failAt)
     IN /\ pager' = Some(r.p)
        /\ heads' = Append(heads, src)
        /\ Closed("StartSet", r)
  /\ UNCHANGED <<builder, MaxPageSize>>

AddGroup(kind, n, failAt) ==
  /\ calls < MaxCalls
  /\ pager # None
  /\ pager[1].curSet # None
  /\ LET g == InputGroup(kind, n)
         r == SetPager_AddGroup(pager[1], g, failAt)
         acc == Accepted(r.out)
     IN /\ pager' = Some(r.p)
        /\ added' = Append(added, g)
        /\ pages' = pages \o [i \in 1..Len(acc) |-> acc[i].arg]
        /\ log' = log \o Logged(r.out)
        /\ runFailed' = (runFailed \/ r.err)
        /\ failed' = (failed \/ r.err)
        /\ last' = [op |-> "AddGroup", err |-> r.err, cb |-> Callbacks(r.out)]
  /\ done' = None
  /\ calls' = calls + 1
  /\ UNCHANGED <<builder, MaxPageSize, heads>>

Flush(failAt) ==
  /\ calls < MaxCalls
  /\ pager # None
  /\ LET r == SetPager_Flush(pager[1], failAt)
     IN /\ pager' = Some(r.p)
        /\ Closed("Flush", r)
  /\ UNCHANGED <<builder, MaxPageSize, heads>>

\* The source the next StartEdgeSet / StartSet call is for: each source of the
\* stream is started once, in stream order.
NextSources == {i \in 1..Len(NodeStream) : i = Len(heads) + 1}

\* The callbacks of a behaviour fail at most once: the choices for failAt in
\* a call that makes at most k callback calls.
FailChoices(k) == IF failed THEN {0} ELSE 0..k

EdgeSetBuilder_StartEdgeSet ==
  /\ DecorIdle
  /\ builder = EdgeSetBuilder
  /\ \E i \in NextSources, failAt \in FailChoices(1) : StartSet(NodeStream[i], failAt)
  /\ UNCHANGED <<decorVars, pureVars>>

EdgeSetBuilder_AddGroup ==
  /\ DecorIdle
  /\ builder = EdgeSetBuilder
  /\ \E kind \in GroupKinds, n \in GroupSizes :
       \E failAt \in FailChoices(n) : AddGroup(kind, n, failAt)
  /\ UNCHANGED <<decorVars, pureVars>>

EdgeSetBuilder_Flush ==
  /\ DecorIdle
  /\ builder = EdgeSetBuilder
  /\ \E failAt \in FailChoices(1) : Flush(failAt)
  /\ UNCHANGED <<decorVars, pureVars>>

CrossReferencesBuilder_StartSet ==
  /\ DecorIdle
  /\ builder = CrossReferencesBuilder
  /\ \E i \in NextSources, failAt \in FailChoices(1) : StartSet(NodeStream[i], failAt)
  /\ UNCHANGED <<decorVars, pureVars>>

CrossReferencesBuilder_AddGroup ==
  /\ DecorIdle
  /\ builder = CrossReferencesBuilder
  /\ \E kind \in GroupKinds, n \in GroupSizes :
       \E failAt \in FailChoices(n) : AddGroup(kind, n, failAt)
  /\ UNCHANGED <<decorVars, pureVars>>

CrossReferencesBuilder_Flush ==
  /\ DecorIdle
  /\ builder = CrossReferencesBuilder
  /\ \E failAt \in FailChoices(1) : Flush(failAt)
  /\ UNCHANGED <<decorVars, pureVars>>

Next ==
  \/ EdgeSetBuilder_StartEdgeSet
  \/ EdgeSetBuilder_AddGroup
  \/ EdgeSetBuilder_Flush
  \/ CrossReferencesBuilder_StartSet
  \/ CrossReferencesBuilder_AddGroup
  \/ CrossReferencesBuilder_Flush

Spec == Init /\ [][Next]_vars

(***************************************************************************)
(* Vocabulary of the properties.                                           *)
(***************************************************************************)
RECURSIVE Flatten(_)
\* The elements of a sequence of groups, concatenated.
Flatten(gs) == IF gs = <<>> THEN <<>> ELSE Elems(Head(gs)) \o Flatten(Tail(gs))

RECURSIVE OfKind(_, _)
\* The groups of gs that have the given kind, in order.
OfKind(gs, kind) ==
  IF gs = <<>> THEN <<>>
  ELSE (IF Head(gs).Kind = kind THEN <<Head(gs)>> ELSE <<>>) \o OfKind(Tail(gs), kind)

\* The group an emitted page carries.
PageGroup(pg) == IF builder = EdgeSetBuilder THEN pg.EdgesGroup ELSE pg.Group

PageGroups(pgs) == [i \in 1..Len(pgs) |-> PageGroup(pgs[i])]

\* Kind and count of a page-index entry.
IndexKind(ix)  == IF builder = EdgeSetBuilder THEN ix.EdgeKind ELSE ix.Kind
IndexCount(ix) == IF builder = EdgeSetBuilder THEN ix.EdgeCount ELSE ix.Count

RECURSIVE SumCounts(_)
SumCounts(ixs) == IF ixs = <<>> THEN 0 ELSE IndexCount(Head(ixs)) + SumCounts(Tail(ixs))

\* Groups of one source are kind-ordered when groups of a kind are adjacent.
KindOrdered(gs) ==
  \A i, j, k \in 1..Len(gs) :
     (i < j /\ j < k /\ gs[i].Kind = gs[k].Kind) => gs[j].Kind = gs[i].Kind

KindsOf(gs) == {gs[i].Kind : i \in 1..Len(gs)}

\* The set Output accepted in the last call was emitted by an EdgeSetBuilder.
EdgeSetDone == done # None /\ builder = EdgeSetBuilder

(***************************************************************************)
(* C1.  The totalEdges of every emitted PagedEdgeSet equals the number of  *)
(* edges in its groups plus the edge counts of its page index, and equals  *)
(* the number of edges given to AddGroup for that source, provided no      *)
(* callback failed while the set was built.                                *)
(***************************************************************************)
C1_TotalEdges ==
  (EdgeSetDone /\ ~done[1].failed) =>
    LET s == done[1].set
    IN /\ s.TotalEdges = Len(Flatten(s.Group)) + SumCounts(s.PageIndex)
       /\ s.TotalEdges = Len(Flatten(done[1].added))

C1_Witness ==
  /\ EdgeSetDone /\ ~done[1].failed
  /\ Len(done[1].set.PageIndex) >= 2
  /\ Len(Flatten(done[1].set.Group)) >= 1

(***************************************************************************)
(* C2.  A source's edges are reconstructable without loss or duplication:  *)
(* for every kind, the edges of that kind's emitted EdgePages in page      *)
(* order, followed by the edges of that kind's group in the emitted        *)
(* PagedEdgeSet, are exactly the edges of that kind given to AddGroup, in  *)
(* input order (groups given kind-ordered, no callback failed).            *)
(***************************************************************************)
C2_Reconstructable ==
  (EdgeSetDone /\ ~done[1].failed /\ KindOrdered(done[1].added)) =>
    \A kind \in GroupKinds :
       /\ Len(OfKind(done[1].set.Group, kind)) <= 1
       /\ Flatten(OfKind(PageGroups(done[1].pages), kind))
            \o Flatten(OfKind(done[1].set.Group, kind))
          = Flatten(OfKind(done[1].added, kind))

C2_Witness ==
  /\ EdgeSetDone /\ ~done[1].failed /\ KindOrdered(done[1].added)
  /\ \E kind \in GroupKinds :
        /\ Len(OfKind(done[1].added, kind)) >= 2
        /\ Len(OfKind(PageGroups(done[1].pages), kind)) >= 1
        /\ Len(Flatten(OfKind(done[1].set.Group, kind))) >= 1
  /\ Cardinality(KindsOf(done[1].added)) >= 2

(***************************************************************************)
(* C3.  The k-th EdgePage emitted for a source (k from 0, counted since    *)
(* that source's StartEdgeSet) carries the page key                        *)
(* sourceTicket "." k-zero-padded-to-10-digits: ordinals are dense from 0  *)
(* and restart at 0 for every source, so the keys of a source's pages are  *)
(* distinct.                                                               *)
(***************************************************************************)
DecimalDigit == <<"0", "1", "2", "3", "4", "5", "6", "7", "8", "9">>

RECURSIVE Decimal(_)
Decimal(k) ==
  IF k < 10 THEN DecimalDigit[k + 1]
  ELSE Decimal(k \div 10) \o DecimalDigit[(k % 10) + 1]

RECURSIVE PadLeft(_, _)
PadLeft(str, width) == IF Len(str) >= width THEN str ELSE PadLeft("0" \o str, width)

C3_PageKeys ==
  builder = EdgeSetBuilder =>
    /\ \A k \in 1..Len(pages) :
          /\ pages[k].SourceTicket = heads[Len(heads)].Ticket
          /\ pages[k].PageKey
               = heads[Len(heads)].Ticket \o "." \o PadLeft(Decimal(k - 1), 10)
    /\ \A j, k \in 1..Len(pages) : j # k => pages[j].PageKey # pages[k].PageKey

C3_Witness ==
  /\ builder = EdgeSetBuilder
  /\ Len(heads) = 2
  /\ Len(pages) >= 2
  /\ \E i \in 1..Len(log) : log[i].fn = "OutputPage" /\ log[i].run = 1

(***************************************************************************)
(* C4.  Outputs are emitted in input order: every output belongs to a      *)
(* started source, the outputs of a source precede those of every source   *)
(* started later, and a source's set is its last output (all its pages     *)
(* precede it, none follows it, and it is emitted at most once).           *)
(***************************************************************************)
\* The position in heads of the source whose ticket an output carries.
StartedAs(ticket) == {r \in 1..Len(heads) : heads[r].Ticket = ticket}

C4_OutputOrder ==
  /\ \A i \in 1..Len(log) : StartedAs(log[i].ticket) = {log[i].run}
  /\ \A i, j \in 1..Len(log) :
        i < j =>
          /\ log[i].run <= log[j].run
          /\ log[i].fn = "Output" => log[i].run < log[j].run

C4_Witness ==
  /\ \E i, j, k, l \in 1..Len(log) :
        /\ i < j /\ j < k /\ k < l
        /\ log[i].fn = "OutputPage" /\ log[i].run = 1
        /\ log[j].fn = "Output"     /\ log[j].run = 1
        /\ log[k].fn = "OutputPage" /\ log[k].run = 2
        /\ log[l].fn = "Output"     /\ log[l].run = 2

(***************************************************************************)
(* C5.  After a sequence of StartEdgeSet and AddGroup calls ended by       *)
(* Flush, with no callback failure, Output has received exactly one set    *)
(* per StartEdgeSet call, in call order, each carrying that call's source  *)
(* node - also for a source to which no group was added.                   *)
(***************************************************************************)
RECURSIVE SetTickets(_)
\* The source tickets of the sets in a log, in order.
SetTickets(l) ==
  IF l = <<>> THEN <<>>
  ELSE (IF Head(l).fn = "Output" THEN <<Head(l).ticket>> ELSE <<>>) \o SetTickets(Tail(l))

C5_OneSetPerSource ==
  /\ (last.op = "Flush" /\ ~failed) =>
        SetTickets(log) = [i \in 1..Len(heads) |-> heads[i].Ticket]
  /\ EdgeSetDone => done[1].set.Source = done[1].head

C5_Witness ==
  /\ last.op = "Flush" /\ ~failed
  /\ Len(heads) = 3
  /\ EdgeSetDone /\ done[1].added = <<>>
  /\ \E i \in 1..Len(log) : log[i].fn = "OutputPage"

(***************************************************************************)
(* C6.  With a non-positive MaxEdgePageSize / MaxPageSize, OutputPage is   *)
(* never called, and every emitted set has an empty page index and exactly *)
(* one group per kind present in the input of its source, holding all the  *)
(* elements of that kind.                                                  *)
(* C6_AsClaimed states this for any input order; C6_NoPaging states it for *)
(* kind-ordered input (groups of a kind adjacent).                         *)
(***************************************************************************)
NoPageCallback == \A i \in 1..Len(last.cb) : last.cb[i].fn # "OutputPage"

OneGroupPerKind(d) ==
  /\ d.set.PageIndex = <<>>
  /\ KindsOf(d.set.Group) = KindsOf(d.added)
  /\ \A kind \in KindsOf(d.added) :
        /\ Len(OfKind(d.set.Group, kind)) = 1
        /\ Flatten(OfKind(d.set.Group, kind)) = Flatten(OfKind(d.added, kind))

C6_AsClaimed ==
  MaxPageSize <= 0 =>
    /\ NoPageCallback
    /\ done # None => OneGroupPerKind(done[1])

C6_NoPaging ==
  MaxPageSize <= 0 =>
    /\ NoPageCallback
    /\ (done # None /\ KindOrdered(done[1].added)) => OneGroupPerKind(done[1])

C6_Witness ==
  /\ MaxPageSize < 0
  /\ done # None /\ KindOrdered(done[1].added)
  /\ Len(done[1].added) >= 3
  /\ Cardinality(KindsOf(done[1].added)) >= 2

(***************************************************************************)
(* C7.  With MaxEdgePageSize = N > 0, every emitted EdgePage holds at most *)
(* N edges and every emitted PagedEdgeSet holds at most N edges in total   *)
(* across its groups.                                                      *)
(***************************************************************************)
C7_AtMostN ==
  (builder = EdgeSetBuilder /\ MaxPageSize > 0) =>
    /\ \A k \in 1..Len(pages) : Len(pages[k].EdgesGroup.Edge) <= MaxPageSize
    /\ done # None => Len(Flatten(done[1].set.Group)) <= MaxPageSize

(***************************************************************************)
(* C8.  In every emitted PagedEdgeSet and PagedCrossReferences the group   *)
(* list and the page-index list are sorted by the edge-kind comparator: no *)
(* element is less than its predecessor, whatever the order in which the   *)
(* groups were added and the pages emitted.                                *)
(***************************************************************************)
KindSorted(kinds) ==
  \A i \in 1..(Len(kinds) - 1) : ~edgeKindLess(kinds[i + 1], kinds[i])

GroupKindsOf(s) == [i \in 1..Len(s.Group) |-> s.Group[i].Kind]
IndexKindsOf(s) == [i \in 1..Len(s.PageIndex) |-> IndexKind(s.PageIndex[i])]

C8_Sorted ==
  done # None =>
    /\ KindSorted(GroupKindsOf(done[1].set))
    /\ KindSorted(IndexKindsOf(done[1].set))

\* Groups and pages that came in the opposite of the comparator's order.
C8_Witness ==
  /\ done # None
  /\ edgeKindLess(RefEdge, ChildOfEdge)
  /\ Len(done[1].added) = 2
  /\ done[1].added[1].Kind = ChildOfEdge /\ done[1].added[2].Kind = RefEdge
  /\ Len(done[1].pages) = 2
  /\ PageGroup(done[1].pages[1]).Kind = ChildOfEdge
  /\ PageGroup(done[1].pages[2]).Kind = RefEdge
  /\ GroupKindsOf(done[1].set) = <<RefEdge, ChildOfEdge>>
  /\ IndexKindsOf(done[1].set) = <<RefEdge, ChildOfEdge>>

(***************************************************************************)
(* C9.  For every emitted EdgePage, the PagedEdgeSet emitted for its       *)
(* source has exactly one page-index entry with the page's key; that       *)
(* entry's edgeKind is the kind of the page's group and its edgeCount the  *)
(* number of edges in the page.                                            *)
(***************************************************************************)
C9_PageIndexed ==
  EdgeSetDone =>
    \A i \in 1..Len(done[1].pages) :
       LET pg   == done[1].pages[i]
           idx  == done[1].set.PageIndex
           hits == {j \in 1..Len(idx) : idx[j].PageKey = pg.PageKey}
       IN /\ Cardinality(hits) = 1
          /\ \A j \in hits :
                /\ idx[j].EdgeKind = pg.EdgesGroup.Kind
                /\ idx[j].EdgeCount = Len(pg.EdgesGroup.Edge)

C9_Witness ==
  /\ EdgeSetDone
  /\ Len(done[1].pages) >= 2
  /\ Cardinality(KindsOf(PageGroups(done[1].pages))) >= 2

(***************************************************************************)
(* C10.  The incomplete flag of an emitted PagedCrossReferences.           *)
(* C10_AsClaimed: it is true unless the source node's /kythe/complete fact *)
(* has the value "definition" - so also true for a node without that fact. *)
(* C10_Incomplete: it is true exactly when the source node carries a       *)
(* /kythe/complete fact whose value is not "definition"; it is false for a *)
(* node without that fact.                                                 *)
(***************************************************************************)
HasFact(facts, name) == \E i \in 1..Len(facts) : facts[i].Name = name

CrossRefsDone == done # None /\ builder = CrossReferencesBuilder

C10_AsClaimed ==
  CrossRefsDone =>
    (done[1].set.Incomplete <=> GetFact(done[1].head.Fact, CompleteFact) # "definition")

C10_Incomplete ==
  CrossRefsDone =>
    /\ done[1].set.SourceTicket = done[1].head.Ticket
    /\ done[1].set.Incomplete <=>
         /\ HasFact(done[1].head.Fact, CompleteFact)
         /\ GetFact(done[1].head.Fact, CompleteFact) # "definition"

C10_Witness ==
  /\ CrossRefsDone
  /\ ~HasFact(done[1].head.Fact, CompleteFact)
  /\ ~done[1].set.Incomplete
  /\ \E i \in 1..Len(heads) :
        HasFact(heads[i].Fact, CompleteFact) /\ GetFact(heads[i].Fact, CompleteFact) # "definition"

(***************************************************************************)
(* DecorationFragmentBuilder (assemble.go).  Fact values, kinds and        *)
(* offsets are byte sequences here, since the builder parses them.         *)
(***************************************************************************)
\* Schema vocabulary used by the builder (package schema).
FileKind        == <<102, 105, 108, 101>>                       \* file
AnchorKind      == <<97, 110, 99, 104, 111, 114>>               \* anchor
ImplicitSubkind == <<105, 109, 112, 108, 105, 99, 105, 116>>    \* implicit

SubkindFact      == "/kythe/subkind"
TextFact         == "/kythe/text"
TextEncodingFact == "/kythe/text/encoding"
AnchorStartFact  == "/kythe/loc/start"
AnchorEndFact    == "/kythe/loc/end"
SnippetStartFact == "/kythe/snippet/start"
SnippetEndFact   == "/kythe/snippet/end"

\* FactsToMap: fact name -> value; a later fact of the same name wins.
FactsToMap(facts) ==
  [n \in {facts[i].Name : i \in 1..Len(facts)} |->
     facts[CHOOSE i \in 1..Len(facts) :
             /\ facts[i].Name = n
             /\ \A j \in 1..Len(facts) : facts[j].Name = n => j <= i].Value]

\* m[name] of a Go map of byte slices: nil (the empty string) when absent.
MapGet(m, name) == IF name \in DOMAIN m THEN m[name] ELSE <<>>

\* GetFact over byte-sequence values: the first fact with the name, else nil.
GetFact_Bytes(facts, name) ==
  LET hits == {i \in 1..Len(facts) : facts[i].Name = name}
  IN IF hits = {} THEN <<>>
     ELSE facts[CHOOSE i \in hits : \A j \in hits : i <= j].Value

RECURSIVE DigitsValue(_)
\* The number written by a sequence of decimal digits.
DigitsValue(s) ==
  IF s = <<>> THEN 0 ELSE 10 * DigitsValue(SubSeq(s, 1, Len(s) - 1)) + (s[Len(s)] - 48)

\* strconv.Atoi: an optional sign and one or more decimal digits; otherwise
\* the value 0 and an error.
Atoi(s) ==
  LET signed == Len(s) > 0 /\ s[1] \in {43, 45}
      digits == IF signed THEN Tail(s) ELSE s
      ok     == Len(digits) > 0 /\ \A i \in 1..Len(digits) : IsDigit(digits[i])
  IN IF ~ok THEN [n |-> 0, err |-> TRUE]
     ELSE [n |-> IF signed /\ s[1] = 45 THEN 0 - DigitsValue(digits) ELSE DigitsValue(digits),
           err |-> FALSE]

\* The fields of a builder.
Builder(a, d, ps) == [anchor |-> a, decor |-> d, parents |-> ps]

\* The loop "for _, parent := range b.parents { b.Output(ctx, parent, fd) }":
\* the calls made, stopping at the first error (call number failAt fails).
Decor_emit(ps, fd, failAt) ==
  LET n == IF failAt \in 1..Len(ps) THEN failAt ELSE Len(ps)
  IN [out |-> [i \in 1..n |-> [file |-> ps[i], fragment |-> fd, ok |-> i # failAt]],
      err |-> failAt \in 1..Len(ps)]

\* Variant of Flush without the deferred reset of the builder.
Decor_Flush_NoReset(b, failAt) ==
  IF Len(b.decor) > 0 /\ Len(b.parents) > 0
    THEN LET r == Decor_emit(b.parents, [File |-> None, Decoration |-> b.decor], failAt)
         IN [b |-> b, out |-> r.out, err |-> r.err]
    ELSE [b |-> b, out |-> <<>>, err |-> FALSE]

\* Variant of Flush that resets the builder only when no Output call failed.
Decor_Flush_ResetOnSuccess(b, failAt) ==
  IF Len(b.decor) > 0 /\ Len(b.parents) > 0
    THEN LET r == Decor_emit(b.parents, [File |-> None, Decoration |-> b.decor], failAt)
         IN [b |-> IF r.err THEN b ELSE Builder(None, <<>>, <<>>), out |-> r.out, err |-> r.err]
    ELSE [b |-> Builder(None, <<>>, <<>>), out |-> <<>>, err |-> FALSE]

\* DecorationFragmentBuilder.Flush: the remaining decorations go to every
\* parent; the deferred function resets the builder on every return.
Decor_Flush(b, failAt) ==
  IF Len(b.decor) > 0 /\ Len(b.parents) > 0
    THEN LET r == Decor_emit(b.parents, [File |-> None, Decoration |-> b.decor], failAt)
         IN [b |-> Builder(None, <<>>, <<>>), out |-> r.out, err |-> r.err]
    ELSE [b |-> Builder(None, <<>>, <<>>), out |-> <<>>, err |-> FALSE]

\* Variant of the RawAnchor of a header: offsets that do not parse are 0.
Decor_rawAnchor_ZeroOffsets(ticket, srcFacts) ==
  Some([Ticket       |-> ticket,
        StartOffset  |-> Int32(Atoi(MapGet(srcFacts, AnchorStartFact)).n),
        EndOffset    |-> Int32(Atoi(MapGet(srcFacts, AnchorEndFact)).n),
        SnippetStart |-> Int32(Atoi(MapGet(srcFacts, SnippetStartFact)).n),
        SnippetEnd   |-> Int32(Atoi(MapGet(srcFacts, SnippetEndFact)).n)])

\* The RawAnchor of an anchor node, or None when its start or end offset
\* does not parse; snippet offsets that do not parse are 0.
Decor_rawAnchor(ticket, srcFacts) ==
  LET anchorStart  == Atoi(MapGet(srcFacts, AnchorStartFact))
      anchorEnd    == Atoi(MapGet(srcFacts, AnchorEndFact))
      snippetStart == Atoi(MapGet(srcFacts, SnippetStartFact))
      snippetEnd   == Atoi(MapGet(srcFacts, SnippetEndFact))
  IN IF anchorStart.err \/ anchorEnd.err THEN None
     ELSE Some([Ticket       |-> ticket,
                StartOffset  |-> Int32(anchorStart.n),
                EndOffset    |-> Int32(anchorEnd.n),
                SnippetStart |-> Int32(snippetStart.n),
                SnippetEnd   |-> Int32(snippetEnd.n)])

\* Variant of the header case of AddEdge: a file is treated as any other
\* node kind, no file fragment is emitted.
Decor_header_NoFile(f, e, fileFails) ==
  LET srcFacts == FactsToMap(e.Source.Fact)
      kind     == MapGet(srcFacts, NodeKindFact)
  IN IF kind = AnchorKind /\ MapGet(srcFacts, SubkindFact) # ImplicitSubkind
       THEN [b   |-> [f.b EXCEPT !.anchor = Decor_rawAnchor(e.Source.Ticket, srcFacts)],
             out |-> f.out, err |-> FALSE]
       ELSE [b |-> f.b, out |-> f.out, err |-> FALSE]

\* Variant of the header case of AddEdge: the subkind of an anchor is not
\* looked at.
Decor_header_AnySubkind(f, e, fileFails) ==
  LET srcFacts == FactsToMap(e.Source.Fact)
      kind     == MapGet(srcFacts, NodeKindFact)
  IN IF kind = FileKind
       THEN [b   |-> f.b,
             out |-> Append(f.out,
                       [file |-> e.Source.Ticket,
                        fragment |->
                          [File |-> Some([Ticket   |-> e.Source.Ticket,
                                          Text     |-> MapGet(srcFacts, TextFact),
                                          Encoding |-> MapGet(srcFacts, TextEncodingFact)]),
                           Decoration |-> <<>>],
                        ok |-> ~fileFails]),
             err |-> fileFails]
     ELSE IF kind = AnchorKind
       THEN [b   |-> [f.b EXCEPT !.anchor = Decor_rawAnchor(e.Source.Ticket, srcFacts)],
             out |-> f.out, err |-> FALSE]
     ELSE [b |-> f.b, out |-> f.out, err |-> FALSE]

\* AddEdge of a header edge (e.Target == nil), after its Flush succeeded
\* with the calls f.out; fileFails: the Output call of a file fragment fails.
Decor_header(f, e, fileFails) ==
  LET srcFacts == FactsToMap(e.Source.Fact)
      kind     == MapGet(srcFacts, NodeKindFact)
  IN IF kind = FileKind
       THEN [b   |-> f.b,
             out |-> Append(f.out,
                       [file |-> e.Source.Ticket,
                        fragment |->
                          [File |-> Some([Ticket   |-> e.Source.Ticket,
                                          Text     |-> MapGet(srcFacts, TextFact),
                                          Encoding |-> MapGet(srcFacts, TextEncodingFact)]),
                           Decoration |-> <<>>],
                        ok |-> ~fileFails]),
             err |-> fileFails]
     ELSE IF kind = AnchorKind /\ MapGet(srcFacts, SubkindFact) # ImplicitSubkind
       THEN [b   |-> [f.b EXCEPT !.anchor = Decor_rawAnchor(e.Source.Ticket, srcFacts)],
             out |-> f.out, err |-> FALSE]
     ELSE [b |-> f.b, out |-> f.out, err |-> FALSE]

\* Variant of the edge case of AddEdge: b.decor is kept after it was emitted.
Decor_edge_KeepDecor(b, e, failAt) ==
  IF e.Kind = ChildOfEdge
    THEN IF GetFact_Bytes(e.Target[1].Fact, NodeKindFact) = FileKind
           THEN [b |-> [b EXCEPT !.parents = Append(b.parents, e.Target[1].Ticket)],
                 out |-> <<>>, err |-> FALSE]
           ELSE [b |-> b, out |-> <<>>, err |-> FALSE]
    ELSE LET d == Append(b.decor,
                         [Anchor |-> b.anchor[1], Kind |-> e.Kind, Target |-> e.Target[1]])
         IN IF Len(b.parents) > 0
              THEN LET r == Decor_emit(b.parents, [File |-> None, Decoration |-> d], failAt)
                   IN [b |-> [b EXCEPT !.decor = d], out |-> r.out, err |-> r.err]
              ELSE [b |-> [b EXCEPT !.decor = d], out |-> <<>>, err |-> FALSE]

\* Variant of the edge case of AddEdge: a childof edge to a node that is not
\* a file is buffered as a decoration.
Decor_edge_ChildOfDecorates(b, e, failAt) ==
  IF e.Kind = ChildOfEdge /\ GetFact_Bytes(e.Target[1].Fact, NodeKindFact) = FileKind
    THEN [b |-> [b EXCEPT !.parents = Append(b.parents, e.Target[1].Ticket)],
          out |-> <<>>, err |-> FALSE]
    ELSE LET d == Append(b.decor,
                         [Anchor |-> b.anchor[1], Kind |-> e.Kind, Target |-> e.Target[1]])
         IN IF Len(b.parents) > 0
              THEN LET r == Decor_emit(b.parents, [File |-> None, Decoration |-> d], failAt)
                   IN [b   |-> [b EXCEPT !.decor = IF r.err THEN d ELSE <<>>],
                       out |-> r.out, err |-> r.err]
              ELSE [b |-> [b EXCEPT !.decor = d], out |-> <<>>, err |-> FALSE]

\* Variant of the edge case of AddEdge: the decorations are emitted to the
\* parent recorded last only.
Decor_edge_EmitToLast(b, e, failAt) ==
  IF e.Kind = ChildOfEdge
    THEN IF GetFact_Bytes(e.Target[1].Fact, NodeKindFact) = FileKind
           THEN [b |-> [b EXCEPT !.parents = Append(b.parents, e.Target[1].Ticket)],
                 out |-> <<>>, err |-> FALSE]
           ELSE [b |-> b, out |-> <<>>, err |-> FALSE]
    ELSE LET d == Append(b.decor,
                         [Anchor |-> b.anchor[1], Kind |-> e.Kind, Target |-> e.Target[1]])
         IN IF Len(b.parents) > 0
              THEN LET r == Decor_emit(<<b.parents[Len(b.parents)]>>,
                                       [File |-> None, Decoration |-> d], failAt)
                   IN [b   |-> [b EXCEPT !.decor = IF r.err THEN d ELSE <<>>],
                       out |-> r.out, err |-> r.err]
              ELSE [b |-> [b EXCEPT !.decor = d], out |-> <<>>, err |-> FALSE]

\* Variant of the edge case of AddEdge: b.decor is emptied after the loop
\* over the parents also when Output failed.
Decor_edge_DropOnError(b, e, failAt) ==
  IF e.Kind = ChildOfEdge
    THEN IF GetFact_Bytes(e.Target[1].Fact, NodeKindFact) = FileKind
           THEN [b |-> [b EXCEPT !.parents = Append(b.parents, e.Target[1].Ticket)],
                 out |-> <<>>, err |-> FALSE]
           ELSE [b |-> b, out |-> <<>>, err |-> FALSE]
    ELSE LET d == Append(b.decor,
                         [Anchor |-> b.anchor[1], Kind |-> e.Kind, Target |-> e.Target[1]])
         IN IF Len(b.parents) > 0
              THEN LET r == Decor_emit(b.parents, [File |-> None, Decoration |-> d], failAt)
                   IN [b |-> [b EXCEPT !.decor = <<>>], out |-> r.out, err |-> r.err]
              ELSE [b |-> [b EXCEPT !.decor = d], out |-> <<>>, err |-> FALSE]

\* AddEdge of an edge with a target while an anchor is set.
Decor_edge(b, e, failAt) ==
  IF e.Kind = ChildOfEdge
    THEN IF GetFact_Bytes(e.Target[1].Fact, NodeKindFact) = FileKind
           THEN [b |-> [b EXCEPT !.parents = Append(b.parents, e.Target[1].Ticket)],
                 out |-> <<>>, err |-> FALSE]
           ELSE [b |-> b, out |-> <<>>, err |-> FALSE]
    ELSE LET d == Append(b.decor,
                         [Anchor |-> b.anchor[1], Kind |-> e.Kind, Target |-> e.Target[1]])
         IN IF Len(b.parents) > 0
              THEN LET r == Decor_emit(b.parents, [File |-> None, Decoration |-> d], failAt)
                   IN [b   |-> [b EXCEPT !.decor = IF r.err THEN d ELSE <<>>],
                       out |-> r.out, err |-> r.err]
              ELSE [b |-> [b EXCEPT !.decor = d], out |-> <<>>, err |-> FALSE]

\* Variant of AddEdge: the error of the header's Flush is not looked at.
Decor_AddEdge_IgnoreFlushError(b, e, failAt) ==
  IF e.Target = None
    THEN LET f == Decor_Flush(b, failAt)
         IN Decor_header(f, e, failAt = Len(f.out) + 1)
  ELSE IF b.anchor = None
    THEN [b |-> b, out |-> <<>>, err |-> FALSE]
  ELSE Decor_edge(b, e, failAt)

\* Variant of AddEdge: a header edge resets the builder without emitting
\* what is buffered.
Decor_AddEdge_HeaderNoFlush(b, e, failAt) ==
  IF e.Target = None
    THEN Decor_header([b |-> Builder(None, <<>>, <<>>), out |-> <<>>, err |-> FALSE],
                      e, failAt = 1)
  ELSE IF b.anchor = None
    THEN [b |-> b, out |-> <<>>, err |-> FALSE]
  ELSE Decor_edge(b, e, failAt)

\* DecorationFragmentBuilder.AddEdge.
Decor_AddEdge(b, e, failAt) ==
  IF e.Target = None
    THEN LET f == Decor_Flush(b, failAt)
         IN IF f.err THEN f ELSE Decor_header(f, e, failAt = Len(f.out) + 1)
  ELSE IF b.anchor = None
    THEN [b |-> b, out |-> <<>>, err |-> FALSE]
  ELSE Decor_edge(b, e, failAt)

RECURSIVE Decor_run(_, _)
\* The Output calls of a builder in state b that is given the edges in order
\* and then flushed, Output never failing.
Decor_run(b, edges) ==
  IF edges = <<>> THEN Decor_Flush(b, 0).out
  ELSE LET r == Decor_AddEdge(b, Head(edges), 0)
       IN r.out \o Decor_run(r.b, Tail(edges))

\* Bound on the number of AddEdge / Flush calls of a behaviour.
MaxEdges == 5

\* The source nodes of the header edges given to AddEdge.
DecorFile ==
  [Ticket |-> "kythe://c?path=a",
   Fact |-> << [Name |-> NodeKindFact, Value |-> FileKind],
               [Name |-> TextFact, Value |-> <<104, 101, 108, 108, 111, 10>>],    \* hello\n
               [Name |-> TextEncodingFact, Value |-> <<117, 116, 102, 45, 56>>] >>] \* utf-8

\* An anchor [0, 5) whose snippet start does not parse and whose snippet end is absent.
DecorAnchor ==
  [Ticket |-> "kythe://c#a1",
   Fact |-> << [Name |-> NodeKindFact, Value |-> AnchorKind],
               [Name |-> AnchorStartFact, Value |-> <<48>>],
               [Name |-> AnchorEndFact, Value |-> <<53>>],
               [Name |-> SnippetStartFact, Value |-> <<113>>] >>]

DecorImplicit ==
  [Ticket |-> "kythe://c#a2",
   Fact |-> << [Name |-> NodeKindFact, Value |-> AnchorKind],
               [Name |-> SubkindFact, Value |-> ImplicitSubkind],
               [Name |-> AnchorStartFact, Value |-> <<48>>],
               [Name |-> AnchorEndFact, Value |-> <<53>>] >>]

\* An anchor whose start offset "x" does not parse.
DecorBadStart ==
  [Ticket |-> "kythe://c#a3",
   Fact |-> << [Name |-> NodeKindFact, Value |-> AnchorKind],
               [Name |-> AnchorStartFact, Value |-> <<120>>],
               [Name |-> AnchorEndFact, Value |-> <<53>>] >>]

\* An anchor without an end offset.
DecorBadEnd ==
  [Ticket |-> "kythe://c#a4",
   Fact |-> << [Name |-> NodeKindFact, Value |-> AnchorKind],
               [Name |-> AnchorStartFact, Value |-> <<48>>] >>]

HeaderNodes == {DecorFile, DecorAnchor, DecorImplicit, DecorBadStart, DecorBadEnd}

\* The target nodes of the other edges: two files (text facts filtered) and a record.
TargetFile1  == [Ticket |-> "kythe://c?path=a", Fact |-> <<[Name |-> NodeKindFact, Value |-> FileKind]>>]
TargetFile2  == [Ticket |-> "kythe://c?path=b", Fact |-> <<[Name |-> NodeKindFact, Value |-> FileKind]>>]
TargetRecord ==
  [Ticket |-> "kythe://c#n",
   Fact |-> <<[Name |-> NodeKindFact, Value |-> <<114, 101, 99, 111, 114, 100>>]>>]

\* A header edge: only Source is set.
HeaderEdge(n) == [Source |-> n, Kind |-> <<>>, Target |-> None]

\* The index in dops of the last header edge given, or 0.
LastHeader ==
  LET hs == {i \in 1..Len(dops) : dops[i].op = "AddEdge" /\ dops[i].e[1].Target = None}
  IN IF hs = {} THEN 0 ELSE CHOOSE i \in hs : \A j \in hs : j <= i

\* The edges given since the last header edge.
CurrentGroup ==
  {dops[i].e[1] : i \in {k \in (LastHeader + 1)..Len(dops) : dops[k].op = "AddEdge"}}

\* The edges AddEdge may be given next: any header edge or, once the stream
\* has begun, an edge of the current source that was not given before
\* (the stream holds each edge of a source once).
EdgeInputs ==
  {HeaderEdge(n) : n \in HeaderNodes}
    \cup (IF LastHeader = 0 THEN {}
          ELSE {[Source |-> [Ticket |-> dops[LastHeader].e[1].Source.Ticket, Fact |-> <<>>],
                 Kind |-> kt[1], Target |-> Some(kt[2])] :
                  kt \in {<<ChildOfEdge, TargetFile1>>, <<ChildOfEdge, TargetFile2>>,
                          <<ChildOfEdge, TargetRecord>>, <<RefEdge, TargetRecord>>,
                          <<DefinesEdge, TargetRecord>>}}
               \ CurrentGroup)

\* Output fails at most once in a behaviour: the choices for failAt in a call
\* that makes at most k Output calls.
DecorFailChoices(k) == IF \E i \in 1..Len(dops) : dops[i].err THEN {0} ELSE 0..k

\* The state after a call that returned r, with its record in the history.
DecorCall(op, e, r) ==
  /\ Len(dops) < MaxEdges
  /\ anchor' = r.b.anchor
  /\ decor' = r.b.decor
  /\ parents' = r.b.parents
  /\ dout' = dout \o r.out
  /\ dops' = Append(dops, [op |-> op, e |-> e, pre |-> Builder(anchor, decor, parents),
                           from |-> Len(dout), err |-> r.err])

\* An EdgeSetBuilder that is never called.
PagerIdle ==
  /\ builder = EdgeSetBuilder
  /\ MaxPageSize = 0
  /\ pager = None
  /\ heads = <<>>
  /\ added = <<>>
  /\ pages = <<>>
  /\ done = None
  /\ log = <<>>
  /\ failed = FALSE
  /\ runFailed = FALSE
  /\ calls = 0
  /\ last = [op |-> "new", err |-> FALSE, cb |-> <<>>]

DecorationFragmentBuilder_AddEdge ==
  /\ PagerIdle
  /\ \E e \in EdgeInputs, failAt \in DecorFailChoices(Len(parents) + 1) :
        DecorCall("AddEdge", Some(e), Decor_AddEdge(Builder(anchor, decor, parents), e, failAt))
  /\ UNCHANGED <<pagerVars, pureVars>>

DecorationFragmentBuilder_Flush ==
  /\ PagerIdle
  /\ \E failAt \in DecorFailChoices(Len(parents)) :
        DecorCall("Flush", None, Decor_Flush(Builder(anchor, decor, parents), failAt))
  /\ UNCHANGED <<pagerVars, pureVars>>

InitDecor == PagerIdle /\ DecorIdle /\ PureIdle

NextDecor ==
  \/ DecorationFragmentBuilder_AddEdge
  \/ DecorationFragmentBuilder_Flush

SpecDecor == InitDecor /\ [][NextDecor]_vars

(***************************************************************************)
(* Vocabulary of the DecorationFragmentBuilder's properties.               *)
(***************************************************************************)
IsHeaderOp(i) == dops[i].op = "AddEdge" /\ dops[i].e[1].Target = None
IsEdgeOp(i)   == dops[i].op = "AddEdge" /\ dops[i].e[1].Target # None
IsFlushOp(i)  == dops[i].op = "Flush"

\* The index in dout of the last Output call made by operation i.
OpEnd(i) == IF i < Len(dops) THEN dops[i + 1].from ELSE Len(dout)

\* The indices in dout of the Output calls made by operation i.
OpCalls(i) == (dops[i].from + 1)..OpEnd(i)

\* A group of the stream: the header edge given by operation h, the edges
\* given by the operations between h and c, and the header edge or Flush c
\* that ends it.
IsGroup(h, c) ==
  /\ h < c
  /\ IsHeaderOp(h)
  /\ \A k \in (h + 1)..(c - 1) : IsEdgeOp(k)
  /\ IsHeaderOp(c) \/ IsFlushOp(c)

\* The node is an anchor that is not implicit and whose start and end
\* offset facts are decimal integers.
IsPlainAnchor(n) ==
  /\ GetFact_Bytes(n.Fact, NodeKindFact) = AnchorKind
  /\ GetFact_Bytes(n.Fact, SubkindFact) # ImplicitSubkind
  /\ ~Atoi(GetFact_Bytes(n.Fact, AnchorStartFact)).err
  /\ ~Atoi(GetFact_Bytes(n.Fact, AnchorEndFact)).err

IsChildOfFile(e) ==
  e.Kind = ChildOfEdge /\ GetFact_Bytes(e.Target[1].Fact, NodeKindFact) = FileKind

\* Ordering assumption: in the group every childof-to-file edge precedes
\* every other edge.
ChildOfFirst(h, c) ==
  \A k, m \in (h + 1)..(c - 1) :
     (IsChildOfFile(dops[m].e[1]) /\ ~IsChildOfFile(dops[k].e[1])) => m < k

\* The file parents of the group's anchor.
FileParents(h, c) ==
  {dops[k].e[1].Target[1].Ticket : k \in {m \in (h + 1)..(c - 1) : IsChildOfFile(dops[m].e[1])}}

\* The deliveries of decorations made for the group: <<i, j>> is the j-th
\* decoration of the fragment of Output call i.
Deliveries(h, c) ==
  {ij \in ((OpEnd(h) + 1)..OpEnd(c)) \X (1..MaxEdges) :
      ij[2] <= Len(dout[ij[1]].fragment.Decoration)}

\* Delivery ij carries the decoration {anchor of header h, kind, target} of edge k.
Carries(ij, h, k) ==
  LET d == dout[ij[1]].fragment.Decoration[ij[2]]
  IN /\ d.Anchor.Ticket = dops[h].e[1].Source.Ticket
     /\ d.Kind = dops[k].e[1].Kind
     /\ d.Target = dops[k].e[1].Target[1]

NoOutputError == \A i \in 1..Len(dops) : ~dops[i].err

PostState(i) == IF i < Len(dops) THEN dops[i + 1].pre ELSE Builder(anchor, decor, parents)

EmptyBuilder == Builder(None, <<>>, <<>>)

IsFileNode(n) == GetFact_Bytes(n.Fact, NodeKindFact) = FileKind

\* The file fragment of a file node: its ticket, text and encoding, no decorations.
FileFragment(n) ==
  [File |-> Some([Ticket   |-> n.Ticket,
                  Text     |-> GetFact_Bytes(n.Fact, TextFact),
                  Encoding |-> GetFact_Bytes(n.Fact, TextEncodingFact)]),
   Decoration |-> <<>>]

\* Operation i made exactly one Output call with a file fragment: its last
\* call, after the decoration fragments of the flushed group, keyed by the
\* ticket of the file n.
EmitsFileFragment(i, n) ==
  /\ OpCalls(i) # {}
  /\ dout[OpEnd(i)].file = n.Ticket
  /\ dout[OpEnd(i)].fragment = FileFragment(n)
  /\ \A k \in OpCalls(i) : k # OpEnd(i) => dout[k].fragment.File = None

\* An Output call of the flush that begins operation i returned an error.
FlushFailed(i) == \E k \in OpCalls(i) : dout[k].fragment.File = None /\ ~dout[k].ok

\* The edges given after header i and before the next header make no Output
\* call and leave the builder empty.
EdgesIgnoredAfter(i) ==
  \A k \in (i + 1)..Len(dops) :
     (IsEdgeOp(k) /\ \A m \in (i + 1)..k : ~IsHeaderOp(m)) =>
        OpCalls(k) = {} /\ PostState(k) = EmptyBuilder

\* C12 as claimed: AddEdge of every header edge of a file emits exactly one
\* file fragment in that call, after flushing the previous group, leaves the
\* builder empty, and the following edges produce no output.
C12_AsClaimed ==
  \A i \in 1..Len(dops) :
    (IsHeaderOp(i) /\ IsFileNode(dops[i].e[1].Source)) =>
       /\ EmitsFileFragment(i, dops[i].e[1].Source)
       /\ PostState(i) = EmptyBuilder
       /\ EdgesIgnoredAfter(i)

\* C12: AddEdge of a header edge of a file whose flush of the previous group
\* did not fail emits exactly one file fragment in that call, after the
\* flushed decorations, keyed by the file's ticket and carrying ticket, text
\* and encoding and no decorations; in every case the builder is empty
\* afterwards and the following edges produce no output.
C12_FileFragment ==
  \A i \in 1..Len(dops) :
    (IsHeaderOp(i) /\ IsFileNode(dops[i].e[1].Source)) =>
       /\ ~FlushFailed(i) => EmitsFileFragment(i, dops[i].e[1].Source)
       /\ PostState(i) = EmptyBuilder
       /\ EdgesIgnoredAfter(i)

\* A file header flushed a group with decorations, emitted its fragment, and
\* was followed by an edge.
C12_Witness ==
  \E i \in 1..Len(dops) :
    /\ IsHeaderOp(i) /\ IsFileNode(dops[i].e[1].Source)
    /\ ~FlushFailed(i)
    /\ Cardinality(OpCalls(i)) >= 2
    /\ i < Len(dops) /\ IsEdgeOp(i + 1)

IsImplicitAnchor(n) ==
  /\ GetFact_Bytes(n.Fact, NodeKindFact) = AnchorKind
  /\ GetFact_Bytes(n.Fact, SubkindFact) = ImplicitSubkind

\* Operation k follows header i with no header in between, or is the first
\* header (with its flush) after i.
InScopeOf(i, k) == i < k /\ \A m \in (i + 1)..(k - 1) : ~IsHeaderOp(m)

\* C13: after the header edge of an implicit anchor no following edge makes
\* an Output call before the next header, neither a later Flush nor the flush
\* of the next header emits decorations, and no decoration carrying that
\* anchor is ever emitted.
C13_ImplicitSuppressed ==
  \A i \in 1..Len(dops) :
    (IsHeaderOp(i) /\ IsImplicitAnchor(dops[i].e[1].Source)) =>
       /\ \A k \in 1..Len(dops) :
            InScopeOf(i, k) =>
              /\ IsEdgeOp(k) => OpCalls(k) = {}
              /\ \A c \in OpCalls(k) : dout[c].fragment.Decoration = <<>>
       /\ \A c \in 1..Len(dout) :
            \A j \in 1..Len(dout[c].fragment.Decoration) :
               dout[c].fragment.Decoration[j].Anchor.Ticket # dops[i].e[1].Source.Ticket

\* The header of an implicit anchor was followed by a childof-to-file edge,
\* a ref edge and a Flush.
C13_Witness ==
  \E i \in 1..Len(dops) :
    /\ IsHeaderOp(i) /\ IsImplicitAnchor(dops[i].e[1].Source)
    /\ i + 3 <= Len(dops)
    /\ IsEdgeOp(i + 1) /\ IsChildOfFile(dops[i + 1].e[1])
    /\ IsEdgeOp(i + 2) /\ dops[i + 2].e[1].Kind = RefEdge
    /\ IsFlushOp(i + 3)

\* A sequence of bytes is a decimal integer: an optional sign and digits.
IsInteger(s) ==
  \E k \in 0..1 :
     /\ Len(s) > k
     /\ k = 1 => s[1] \in {43, 45}
     /\ \A j \in (k + 1)..Len(s) : s[j] >= 48 /\ s[j] <= 57

\* The node is a non-implicit anchor whose start or end offset is not an integer.
IsMalformedAnchor(n) ==
  /\ GetFact_Bytes(n.Fact, NodeKindFact) = AnchorKind
  /\ GetFact_Bytes(n.Fact, SubkindFact) # ImplicitSubkind
  /\ \/ ~IsInteger(GetFact_Bytes(n.Fact, AnchorStartFact))
     \/ ~IsInteger(GetFact_Bytes(n.Fact, AnchorEndFact))

\* The node is a non-implicit anchor with integer start and end offsets and
\* a snippet offset that is absent or not an integer.
IsSnippetlessAnchor(n) ==
  /\ GetFact_Bytes(n.Fact, NodeKindFact) = AnchorKind
  /\ GetFact_Bytes(n.Fact, SubkindFact) # ImplicitSubkind
  /\ IsInteger(GetFact_Bytes(n.Fact, AnchorStartFact))
  /\ IsInteger(GetFact_Bytes(n.Fact, AnchorEndFact))
  /\ \/ ~IsInteger(GetFact_Bytes(n.Fact, SnippetStartFact))
     \/ ~IsInteger(GetFact_Bytes(n.Fact, SnippetEndFact))

\* Every edge given after header i and before the next header makes no
\* Output call and changes no field of the builder.
EdgesDroppedAfter(i) ==
  \A k \in (i + 1)..Len(dops) :
     (IsEdgeOp(k) /\ InScopeOf(i, k)) => OpCalls(k) = {} /\ PostState(k) = dops[k].pre

\* A snippet offset that is absent or not an integer is taken as 0, and the
\* anchor is set.
SnippetDefaultsTo0(i) ==
  LET n == dops[i].e[1].Source
      a == PostState(i).anchor
  IN /\ a # None
     /\ a[1].Ticket = n.Ticket
     /\ ~IsInteger(GetFact_Bytes(n.Fact, SnippetStartFact)) => a[1].SnippetStart = 0
     /\ ~IsInteger(GetFact_Bytes(n.Fact, SnippetEndFact)) => a[1].SnippetEnd = 0

\* C14 as claimed: AddEdge of the header of an anchor whose start or end
\* offset does not parse returns no error, leaves the anchor unset, and every
\* following edge is ignored until the next header; an absent or unparsable
\* snippet offset alone is taken as 0 and the anchor is set.
C14_AsClaimed ==
  \A i \in 1..Len(dops) :
    IsHeaderOp(i) =>
      /\ IsMalformedAnchor(dops[i].e[1].Source) =>
           /\ ~dops[i].err
           /\ PostState(i).anchor = None
           /\ EdgesDroppedAfter(i)
      /\ IsSnippetlessAnchor(dops[i].e[1].Source) => SnippetDefaultsTo0(i)

\* C14: AddEdge of the header of an anchor whose start or end offset does not
\* parse returns no error other than that of its flush of the previous group,
\* leaves the anchor unset, and every following edge is ignored (no Output
\* call, no state change) until the next header; when the flush does not
\* fail, an absent or unparsable snippet offset alone is taken as 0 and the
\* anchor is set.
C14_MalformedDropped ==
  \A i \in 1..Len(dops) :
    IsHeaderOp(i) =>
      /\ IsMalformedAnchor(dops[i].e[1].Source) =>
           /\ dops[i].err => FlushFailed(i)
           /\ PostState(i).anchor = None
           /\ EdgesDroppedAfter(i)
      /\ (IsSnippetlessAnchor(dops[i].e[1].Source) /\ ~FlushFailed(i)) => SnippetDefaultsTo0(i)

\* Headers with an unparsable start offset and with an absent end offset were
\* each followed by an edge, and a header with an unparsable snippet offset
\* was given.
C14_Witness ==
  /\ \E i \in 1..Len(dops) :
       /\ IsHeaderOp(i) /\ dops[i].e[1].Source = DecorBadStart
       /\ i < Len(dops) /\ IsEdgeOp(i + 1)
  /\ \E i \in 1..Len(dops) :
       /\ IsHeaderOp(i) /\ dops[i].e[1].Source = DecorBadEnd
       /\ i < Len(dops) /\ IsEdgeOp(i + 1)
  /\ \E i \in 1..Len(dops) :
       /\ IsHeaderOp(i) /\ IsSnippetlessAnchor(dops[i].e[1].Source) /\ ~FlushFailed(i)

(***************************************************************************)
(* The builders together: a behaviour exercises one builder, a paging      *)
(* builder with any configuration or the DecorationFragmentBuilder.        *)
(***************************************************************************)
NextBuilders == Next \/ NextDecor

SpecBuilders == Init /\ [][NextBuilders]_vars

\* A Flush of the DecorationFragmentBuilder called directly after a Flush
\* makes no Output call, returns no error and finds and leaves the builder
\* empty.
DecorFlushTwice ==
  \A i \in 1..(Len(dops) - 1) :
    (IsFlushOp(i) /\ IsFlushOp(i + 1)) =>
       /\ OpCalls(i + 1) = {}
       /\ ~dops[i + 1].err
       /\ dops[i + 1].pre = EmptyBuilder
       /\ PostState(i + 1) = EmptyBuilder

\* A step that is a Flush of a paging builder directly after a Flush calls
\* no callback, returns no error and leaves the pager unchanged.
PagerFlushTwice ==
  (last.op = "Flush" /\ last'.op = "Flush" /\ calls' = calls + 1) =>
     /\ last'.cb = <<>>
     /\ ~last'.err
     /\ pager' = pager
     /\ log' = log

\* Output accepted at most one set for each source started.
SetOncePerSource ==
  \A r \in 1..Len(heads) :
     Cardinality({i \in 1..Len(log) : log[i].fn = "Output" /\ log[i].run = r}) <= 1

\* C15: Flush is idempotent.  A Flush of the DecorationFragmentBuilder
\* directly after a Flush makes no Output call and leaves the builder empty;
\* a Flush of a paging builder directly after a Flush calls no callback and
\* changes nothing, and a set is output at most once per source.
C15_FlushIdempotent ==
  /\ []DecorFlushTwice
  /\ [][PagerFlushTwice]_vars
  /\ []SetOncePerSource

\* A Flush that emitted decorations was followed by a Flush.
C15_Witness ==
  \E i \in 1..(Len(dops) - 1) :
    /\ IsFlushOp(i) /\ IsFlushOp(i + 1)
    /\ OpCalls(i) # {}
    /\ dops[i].pre.anchor # None

\* C16: when an Output call of an AddEdge or Flush returns an error, the
\* operation returns an error and that call is its last Output call (the
\* remaining parents are skipped); a header whose flush failed emits no file
\* fragment and sets no anchor; and an operation returns an error only when
\* one of its Output calls did.
C16_ErrorStops ==
  \A i \in 1..Len(dops) :
    /\ \A c \in OpCalls(i) :
         ~dout[c].ok =>
            /\ dops[i].err
            /\ c = OpEnd(i)
            /\ (IsHeaderOp(i) /\ dout[c].fragment.File = None) =>
                  /\ \A k \in OpCalls(i) : dout[k].fragment.File = None
                  /\ PostState(i).anchor = None
    /\ dops[i].err => \E c \in OpCalls(i) : ~dout[c].ok

\* Output failed for the first of two parents in the flush of a header of
\* a file.
C16_Witness ==
  \E i \in 1..Len(dops) :
    /\ IsHeaderOp(i) /\ dops[i].err
    /\ IsFileNode(dops[i].e[1].Source)
    /\ Len(dops[i].pre.parents) = 2
    /\ Cardinality(OpCalls(i)) = 1

\* The history is one builder fed a stream of edges and then flushed once,
\* Output never failing.
WholeStreamRun ==
  /\ Len(dops) >= 2
  /\ IsFlushOp(Len(dops))
  /\ \A i \in 1..(Len(dops) - 1) : dops[i].op = "AddEdge"
  /\ NoOutputError

\* The stream of edges given so far.
Stream == [i \in 1..(Len(dops) - 1) |-> dops[i].e[1]]

\* The header boundaries of the stream at which it can be split.
Boundaries == {k \in 2..Len(Stream) : Stream[k].Target = None}

\* The Output calls of a builder of its own that is fed a partition of the
\* stream and then flushed.
PartitionRun(from, to) == Decor_run(EmptyBuilder, SubSeq(Stream, from, to))

RECURSIVE InOrder(_, _)
\* The Output calls of the partitions of the stream cut at the boundaries in
\* cuts, from position from on, one partition after the other in stream order.
InOrder(from, cuts) ==
  LET later == {c \in cuts : c > from}
  IN IF later = {} THEN PartitionRun(from, Len(Stream))
     ELSE LET next == CHOOSE c \in later : \A d \in later : c <= d
          IN PartitionRun(from, next - 1) \o InOrder(next, cuts)

\* The fragments of the Output calls in out that have key f, in order.
ForKey(out, f) ==
  LET RECURSIVE pick(_)
      pick(s) == IF s = <<>> THEN <<>>
                 ELSE (IF Head(s).file = f THEN <<Head(s).fragment>> ELSE <<>>) \o pick(Tail(s))
  IN pick(out)

Keys(out) == {out[i].file : i \in 1..Len(out)}

\* The interleaving of the calls a and b whose positions in pos are taken by
\* the calls of a, in order.
Interleaved(a, b, pos) ==
  [i \in 1..(Len(a) + Len(b)) |->
     IF i \in pos THEN a[Cardinality({j \in pos : j <= i})]
     ELSE b[i - Cardinality({j \in pos : j <= i})]]

\* C17 as claimed: the builders of two partitions of the stream, their calls
\* interleaved in any way, produce for every key the same sequence of
\* fragments as one builder fed the whole stream.
C17_AsClaimed ==
  WholeStreamRun =>
    \A k \in Boundaries :
      LET a == PartitionRun(1, k - 1)
          b == PartitionRun(k, Len(Stream))
      IN \A pos \in SUBSET (1..(Len(a) + Len(b))) :
           Cardinality(pos) = Len(a) =>
             \A f \in Keys(dout) \cup Keys(a) \cup Keys(b) :
                ForKey(Interleaved(a, b, pos), f) = ForKey(dout, f)

\* C17: the builders of the partitions of a stream split at any of its
\* header boundaries, run one after the other in stream order and each
\* followed by Flush, make the same Output calls in the same order as one
\* builder fed the whole stream followed by Flush (inserting a Flush before
\* a header edge changes nothing); run in any interleaving, they produce for
\* every key the same fragments, the same number of times.
C17_Partitioned ==
  WholeStreamRun =>
    /\ \A cuts \in SUBSET Boundaries :
         InOrder(1, cuts) = [i \in 1..Len(dout) |-> [dout[i] EXCEPT !.ok = TRUE]]
    /\ \A k \in Boundaries :
         LET a == PartitionRun(1, k - 1)
             b == PartitionRun(k, Len(Stream))
         IN \A f \in Keys(dout) \cup Keys(a) \cup Keys(b), fr \in {dout[i].fragment : i \in 1..Len(dout)} :
              Cardinality({i \in 1..Len(a) : a[i].file = f /\ a[i].fragment = fr})
                + Cardinality({i \in 1..Len(b) : b[i].file = f /\ b[i].fragment = fr})
              = Cardinality({i \in 1..Len(dout) : dout[i].file = f /\ dout[i].fragment = fr})

\* A stream was split between a group that delivered a decoration to a file
\* and the header of that file, both partitions writing to the same key.
C17_Witness ==
  /\ WholeStreamRun
  /\ \E k \in Boundaries :
       /\ Keys(PartitionRun(1, k - 1)) \cap Keys(PartitionRun(k, Len(Stream))) # {}
       /\ \E i \in 1..Len(dout) : dout[i].fragment.Decoration # <<>>

(***************************************************************************)
(* edgeKindLess as a function of its arguments.                            *)
(***************************************************************************)
\* The edge kinds compared: the kinds of edgeOrdering, variants of them,
\* kinds outside the list, reverse kinds, and kinds that differ from another
\* only in letter case or in a trailing ordinal.
CompareKinds ==
  { DefinesEdge, DefinesBindingEdge, DocumentsEdge, RefEdge, NamedEdge, TypedEdge,
    ChildOfEdge,
    EdgePrefix \o <<122, 122, 122>>,                      \* /kythe/edge/zzz
    RefEdge \o <<47, 99, 97, 108, 108>>,                  \* /kythe/edge/ref/call
    NamedEdge \o <<47, 120>>,                             \* /kythe/edge/named/x
    MirrorEdge(DefinesEdge), MirrorEdge(RefEdge), MirrorEdge(ChildOfEdge),
    MirrorEdge(TypedEdge),
    EdgePrefix \o <<90, 122, 122>>,                       \* /kythe/edge/Zzz
    EdgePrefix \o <<112, 97, 114, 97, 109, 46, 49>>,      \* /kythe/edge/param.1
    EdgePrefix \o <<112, 97, 114, 97, 109, 46, 50>>,      \* /kythe/edge/param.2
    RefEdge \o <<46, 49>> }                               \* /kythe/edge/ref.1

\* The kinds a, b and c to compare.
InitLess ==
  /\ PagerIdle /\ DecorIdle
  /\ args \in {Some(<<a, b, c>>) : a, b, c \in CompareKinds}
  /\ result = None

\* edgeKindLess is called for the pairs of a, b and c.
Compare ==
  /\ args # None /\ result = None
  /\ LET k == args[1]
     IN result' = Some([i \in 1..3 |-> [j \in 1..3 |-> edgeKindLess(k[i], k[j])]])
  /\ UNCHANGED <<args, pagerVars, decorVars>>

NextLess == Compare

SpecLess == InitLess /\ [][NextLess]_vars

\* less(x, y) for x and y among a = 1, b = 2, c = 3.
less(i, j) == result[1][i][j]

\* C18: edgeKindLess is a strict total order on distinct kinds: less(a, a) is
\* false, less(a, b) and less(b, a) are never both true, for a # b one of
\* them is true, and less(a, b) and less(b, c) imply less(a, c).
C18_StrictTotalOrder ==
  result # None =>
    LET k == args[1]
    IN /\ ~less(1, 1)
       /\ ~(less(1, 2) /\ less(2, 1))
       /\ k[1] # k[2] => (less(1, 2) \/ less(2, 1))
       /\ (less(1, 2) /\ less(2, 3)) => less(1, 3)

\* The kind is entry i of the priority list or a variant of it, in canonical form.
InFamily(kind, i) == IsEdgeVariant(Canonicalize(kind), edgeOrdering[i])

\* The kind is entry i of the priority list itself, in canonical form.
IsEntry(kind, i) == Canonicalize(kind) = edgeOrdering[i]

SameLayer(a, b) ==
  /\ IsAnchorEdge(a) = IsAnchorEdge(b)
  /\ EdgeDirection(a) = EdgeDirection(b)

\* The layered precedence of a before b.
Precedes(a, b) ==
  \/ IsAnchorEdge(a) /\ ~IsAnchorEdge(b)
  \/ /\ IsAnchorEdge(a) = IsAnchorEdge(b)
     /\ EdgeDirection(a) = Forward /\ EdgeDirection(b) = Reverse
  \/ /\ SameLayer(a, b)
     /\ \E i \in 1..Len(edgeOrdering) :
          \/ IsEntry(a, i) /\ InFamily(b, i) /\ ~IsEntry(b, i)
          \/ InFamily(a, i) /\ \E j \in (i + 1)..Len(edgeOrdering) : InFamily(b, j)
          \/ InFamily(a, i) /\ \A j \in 1..Len(edgeOrdering) : ~InFamily(b, j)

\* C19: anchor kinds precede non-anchor kinds; with equal anchor-ness forward
\* kinds precede reverse kinds; with equal anchor-ness and direction entry i
\* of the priority list precedes its variants, and entry i and its variants
\* precede entry j and its variants for j > i and every kind outside the
\* list; in particular less(defines, documents), less(defines, %defines) and
\* less(ref, zzz) hold and less(defines/binding, defines) does not.
C19_Layered ==
  /\ result # None => (Precedes(args[1][1], args[1][2]) => less(1, 2))
  /\ edgeKindLess(DefinesEdge, DocumentsEdge)
  /\ edgeKindLess(DefinesEdge, MirrorEdge(DefinesEdge))
  /\ edgeKindLess(RefEdge, EdgePrefix \o <<122, 122, 122>>)
  /\ ~edgeKindLess(DefinesBindingEdge, DefinesEdge)

\* A variant of a list entry was compared with a later entry of its layer
\* and precedes it.
C19_Witness ==
  /\ result # None
  /\ SameLayer(args[1][1], args[1][2])
  /\ \E i \in 1..Len(edgeOrdering) :
       /\ InFamily(args[1][1], i) /\ ~IsEntry(args[1][1], i)
       /\ \E j \in (i + 1)..Len(edgeOrdering) : IsEntry(args[1][2], j)
  /\ less(1, 2)

\* ---------------------------------------------------------------------------
\* Anchor expansion (ExpandAnchor, checkSpan, getText, p2p)
\* ---------------------------------------------------------------------------

LineEnd == 10

NoError == ""

Location_Point(byteOffset, lineNumber, columnOffset) ==
  [ByteOffset |-> byteOffset, LineNumber |-> lineNumber, ColumnOffset |-> columnOffset]

\* Number of lines of the text: one more than its line ends.
Normalizer_lines(text) == 1 + Cardinality({i \in 1..Len(text) : text[i] = LineEnd})

\* Byte offset of the first byte of the line (1-based line numbers).
Normalizer_lineStart(text, line) ==
  IF line = 1 THEN 0
  ELSE CHOOSE o \in 1..Len(text) :
         /\ text[o] = LineEnd
         /\ Cardinality({i \in 1..o : text[i] = LineEnd}) = line - 1

\* Normalizer.ByteOffset: the point of a byte offset, the offset kept within
\* the text.
Normalizer_ByteOffset(text, offset) ==
  LET o    == IF offset < 0 THEN 0 ELSE IF offset > Len(text) THEN Len(text) ELSE offset
      line == 1 + Cardinality({i \in 1..o : text[i] = LineEnd})
  IN  Location_Point(o, line, o - Normalizer_lineStart(text, line))

\* Normalizer.Point for a point that gives a line number only. For a line
\* after the last one the answer is pastLast (one of PastLastOffsets).
Normalizer_Point(text, line, pastLast) ==
  IF line <= Normalizer_lines(text)
  THEN Location_Point(Normalizer_lineStart(text, line), line, 0)
  ELSE Location_Point(pastLast, Normalizer_lines(text), pastLast - Normalizer_lineStart(text, Normalizer_lines(text)))

\* The answers of the normalizer for a line after the last one: the zero
\* point or the end of the text.
PastLastOffsets(text) == {0, Len(text)}

\* text.ToUTF8: the bytes of a UTF-8 text are kept, an unknown encoding is an
\* error.
ToUTF8(encoding, bytes) ==
  IF encoding = "utf-8" THEN [txt |-> bytes, err |-> NoError]
  ELSE [txt |-> <<>>, err |-> "unsupported encoding"]

checkSpan(textLen, start, end) ==
  IF end > textLen THEN "span past EOF"
  ELSE IF start < 0 THEN "negative span"
  ELSE IF start > end THEN "crossed span"
  ELSE NoError

getText(sp, ep, file) ==
  LET r == ToUTF8(file.Encoding, SubSeq(file.Text, sp.ByteOffset + 1, ep.ByteOffset))
  IN  IF r.err # NoError THEN [txt |-> <<>>, err |-> "unable to decode file text"] ELSE r

p2p(p) == Location_Point(p.ByteOffset, p.LineNumber, p.ColumnOffset)

\* Variant of the line-based snippet: the snippet ends at the next line's start.
ExpandAnchor_lineSnippet_ToNextLine(sp, nextLine) ==
  LET ssp == Location_Point(sp.ByteOffset - sp.ColumnOffset, sp.LineNumber, 0)
  IN  IF nextLine.ByteOffset <= ssp.ByteOffset
      THEN [err |-> "anchor past EOF", ssp |-> ssp, sep |-> ssp]
      ELSE [err |-> NoError, ssp |-> ssp,
            sep |-> Location_Point(nextLine.ByteOffset, sp.LineNumber,
                                   sp.ColumnOffset + (nextLine.ByteOffset - sp.ByteOffset))]

\* The line-based snippet of ExpandAnchor, from the anchor's start point and
\* the normalizer's point of the next line.
ExpandAnchor_lineSnippet(sp, nextLine) ==
  LET ssp == Location_Point(sp.ByteOffset - sp.ColumnOffset, sp.LineNumber, 0)
  IN  IF nextLine.ByteOffset <= ssp.ByteOffset
      THEN [err |-> "anchor past EOF", ssp |-> ssp, sep |-> ssp]
      ELSE [err |-> NoError, ssp |-> ssp,
            sep |-> Location_Point(nextLine.ByteOffset - 1, sp.LineNumber,
                                   sp.ColumnOffset + (nextLine.ByteOffset - sp.ByteOffset - 1))]

Failed(msg) == [err |-> msg, a |-> None]

\* ExpandAnchor(anchor, file, norm, kind); norm is the normalizer of
\* file.Text, pastLast its answer for a line after the last one.
ExpandAnchor(anchor_, file, pastLast, kind) ==
  IF checkSpan(Len(file.Text), anchor_.StartOffset, anchor_.EndOffset) # NoError
  THEN Failed("invalid text offsets")
  ELSE
    LET sp  == Normalizer_ByteOffset(file.Text, anchor_.StartOffset)
        ep  == Normalizer_ByteOffset(file.Text, anchor_.EndOffset)
        txt == getText(sp, ep, file)
    IN  IF txt.err # NoError THEN Failed("error getting anchor text")
        ELSE
          LET explicit == anchor_.SnippetStart # 0 \/ anchor_.SnippetEnd # 0
              bad  == explicit /\ checkSpan(Len(file.Text), anchor_.SnippetStart, anchor_.SnippetEnd) # NoError
              line == ExpandAnchor_lineSnippet(sp, Normalizer_Point(file.Text, sp.LineNumber + 1, pastLast))
              ssp  == IF explicit THEN Normalizer_ByteOffset(file.Text, anchor_.SnippetStart) ELSE line.ssp
              sep  == IF explicit THEN Normalizer_ByteOffset(file.Text, anchor_.SnippetEnd) ELSE line.sep
          IN  IF bad THEN Failed("invalid snippet offsets")
              ELSE IF ~explicit /\ line.err # NoError THEN Failed(line.err)
              ELSE
                LET snippet == getText(ssp, sep, file)
                IN  IF snippet.err # NoError
                    THEN Failed(IF explicit THEN "error getting text for snippet"
                                ELSE "error getting text for line snippet")
                    ELSE [err |-> NoError,
                          a |-> Some([Ticket  |-> anchor_.Ticket,
                                      Kind    |-> kind,
                                      Parent  |-> file.Ticket,
                                      Text    |-> txt.txt,
                                      Span    |-> [Start |-> p2p(sp), End |-> p2p(ep)],
                                      Snippet |-> snippet.txt,
                                      SnippetSpan |-> [Start |-> p2p(ssp), End |-> p2p(sep)]])]

\* Bound on the length of the file texts.
MaxText == 5

RECURSIVE TextsOfLen(_)
TextsOfLen(n) ==
  IF n = 0 THEN {<<>>}
  ELSE {Append(s, b) : s \in TextsOfLen(n - 1), b \in {97, LineEnd}}

\* File texts: lines of the letter a.
Texts == UNION {TextsOfLen(n) : n \in 0..MaxText}

Encodings == {"utf-8", "latin-9"}

ExpandFiles ==
  {[Ticket |-> "kythe://c?path=a", Text |-> txt, Encoding |-> enc] : txt \in Texts, enc \in Encodings}

\* Snippet offsets of the raw anchors: none, a span, and a crossed span.
SnippetOffsets == {<<0, 0>>, <<0, 2>>, <<1, 3>>, <<2, 1>>}

RawAnchors ==
  {[Ticket |-> "kythe://c#a1", StartOffset |-> s, EndOffset |-> e,
    SnippetStart |-> sn[1], SnippetEnd |-> sn[2]] :
     s \in (0 - 1)..MaxText, e \in 0..(MaxText + 1), sn \in SnippetOffsets}

InitExpand ==
  /\ PagerIdle
  /\ DecorIdle
  /\ args \in {Some([anchor |-> a, file |-> f]) : a \in RawAnchors, f \in ExpandFiles}
  /\ result = None

Expand ==
  /\ args # None
  /\ result = None
  /\ \E pastLast \in PastLastOffsets(args[1].file.Text) :
       result' = Some([pastLast |-> pastLast,
                       r |-> ExpandAnchor(args[1].anchor, args[1].file, pastLast, RefEdge)])
  /\ UNCHANGED <<args, pagerVars, decorVars>>

NextExpand == Expand

SpecExpand == InitExpand /\ [][NextExpand]_vars

\* ExpandAnchor succeeded on an anchor without snippet offsets.
LineSnippetMade ==
  /\ result # None
  /\ result[1].r.err = NoError
  /\ args[1].anchor.SnippetStart = 0
  /\ args[1].anchor.SnippetEnd = 0

Expanded == result[1].r.a[1]

FileText == args[1].file.Text

\* Offset of the first byte of the line that holds the byte offset.
StartOfLine(text, offset) ==
  IF \E i \in 1..offset : text[i] = LineEnd
  THEN CHOOSE o \in 1..offset : text[o] = LineEnd /\ \A i \in (o + 1)..offset : text[i] # LineEnd
  ELSE 0

\* The offset is on a line that is followed by another line.
HasNextLine(text, offset) == \E i \in (offset + 1)..Len(text) : text[i] = LineEnd

\* Offset of the first byte of the line after the one that holds the offset.
StartOfNextLine(text, offset) ==
  CHOOSE o \in (offset + 1)..Len(text) : text[o] = LineEnd /\ \A i \in (offset + 1)..(o - 1) : text[i] # LineEnd

\* The snippet span is the anchor's start line: from the line's first byte to
\* the byte before the next line's start (before the end of the text on the
\* last line).
OnStartLine ==
  LET a  == Expanded
      s  == a.Span.Start.ByteOffset
  IN  /\ a.SnippetSpan.Start.LineNumber = a.Span.Start.LineNumber
      /\ a.SnippetSpan.End.LineNumber = a.Span.Start.LineNumber
      /\ a.SnippetSpan.Start.ByteOffset = StartOfLine(FileText, s)
      /\ a.SnippetSpan.End.ByteOffset =
           (IF HasNextLine(FileText, s) THEN StartOfNextLine(FileText, s) ELSE Len(FileText)) - 1
      /\ a.Snippet = SubSeq(FileText, a.SnippetSpan.Start.ByteOffset + 1, a.SnippetSpan.End.ByteOffset)

StartContained == Expanded.SnippetSpan.Start.ByteOffset <= Expanded.Span.Start.ByteOffset

EndContained == Expanded.Span.End.ByteOffset <= Expanded.SnippetSpan.End.ByteOffset

\* The anchor's text holds no line end and the anchor ends before the end of
\* the file's text.
WithinLine ==
  /\ \A i \in (args[1].anchor.StartOffset + 1)..args[1].anchor.EndOffset : FileText[i] # LineEnd
  /\ args[1].anchor.EndOffset < Len(FileText)

VName(corpus, path, signature) == [Corpus |-> corpus, Path |-> path, Signature |-> signature]

\* kytheuri.ToString: "kythe://corpus?path=path#signature", empty parts left out.
kytheuri_ToString(v) ==
  <<107, 121, 116, 104, 101, 58>>
    \o (IF v.Corpus = <<>> THEN <<>> ELSE <<47, 47>> \o v.Corpus)
    \o (IF v.Path = <<>> THEN <<>> ELSE <<63, 112, 97, 116, 104, 61>> \o v.Path)
    \o (IF v.Signature = <<>> THEN <<>> ELSE <<35>> \o v.Signature)

\* An spb.Entry.
Entry(source, edgeKind, target, factName, factValue) ==
  [Source |-> source, EdgeKind |-> edgeKind, Target |-> target,
   FactName |-> factName, FactValue |-> factValue]

\* graphstore.IsEdge: the entry has an edge kind.
IsEdge(e) == e.EdgeKind # <<>>

\* schema.ParseOrdinal: base kind, ordinal and whether there was one.
ParseOrdinal(edgeKind) ==
  LET base == StripOrdinal(edgeKind)
  IN  IF base = edgeKind THEN [kind |-> edgeKind, ordinal |-> 0, hasOrdinal |-> FALSE]
      ELSE [kind |-> base,
            ordinal |-> DigitsValue(SubSeq(edgeKind, Len(base) + 2, Len(edgeKind))),
            hasOrdinal |-> TRUE]

EdgeTarget(ticket, ordinal) == [Ticket |-> ticket, Ordinal |-> ordinal]

\* The map edges of SourceFromEntries after its first loop:
\* edge kind -> target ticket -> ordinal set, as kind -> set of EdgeTargets.
SourceFromEntries_edges(entries) ==
  LET ix == {i \in 1..Len(entries) : IsEdge(entries[i])}
  IN  [kind \in {ParseOrdinal(entries[i].EdgeKind).kind : i \in ix} |->
         {EdgeTarget(kytheuri_ToString(entries[i].Target[1]),
                     Int32(ParseOrdinal(entries[i].EdgeKind).ordinal)) :
            i \in {j \in ix : ParseOrdinal(entries[j].EdgeKind).kind = kind}}]

\* src.Facts after the first loop: the last fact entry of a name wins.
SourceFromEntries_facts(entries) ==
  LET ix == {i \in 1..Len(entries) : ~IsEdge(entries[i])}
  IN  [name \in {entries[i].FactName : i \in ix} |->
         entries[CHOOSE i \in ix :
                   /\ entries[i].FactName = name
                   /\ \A j \in ix : entries[j].FactName = name => j <= i].FactValue]

\* The sequences that list every element of the set once.
Enumerations(S) ==
  {s \in [1..Cardinality(S) -> S] : \A i, j \in 1..Cardinality(S) : s[i] = s[j] => i = j}

\* The orders in which the range loops over the maps of one kind can append
\* its targets: for every kind some enumeration of its targets.
IterationOrders(edges) ==
  {f \in [DOMAIN edges -> UNION {Enumerations(edges[k]) : k \in DOMAIN edges}] :
     \A k \in DOMAIN edges : f[k] \in Enumerations(edges[k])}

\* SourceFromEntries; iter is the order in which the maps were ranged over.
SourceFromEntries(entries, iter) ==
  IF Len(entries) = 0 THEN None
  ELSE Some([Ticket |-> kytheuri_ToString(entries[1].Source),
             Facts  |-> SourceFromEntries_facts(entries),
             Edges  |-> [kind \in DOMAIN iter |-> Sort("byOrdinal", iter[kind])]])

\* Bound on the number of entries of a batch.
MaxEntries == 3

SourceVName == VName(<<99>>, <<>>, <<115>>)

TargetVNames == {VName(<<99>>, <<>>, <<97>>), VName(<<99>>, <<>>, <<98>>)}

\* Edge kinds of the entries: with and without ordinals.
EntryKinds ==
  {RefEdge, RefEdge \o <<46, 48>>, RefEdge \o <<46, 50>>, RefEdge \o <<46, 49, 48>>, ChildOfEdge}

EntryFacts ==
  {<<NodeKindFact, FileKind>>, <<NodeKindFact, AnchorKind>>,
   <<TextFact, <<120>>>>, <<TextEncodingFact, <<117, 116, 102, 45, 56>>>>}

\* The entries of a batch: edges and facts of one source.
Entries ==
  {Entry(SourceVName, k, Some(v), "/", <<>>) : k \in EntryKinds, v \in TargetVNames}
    \cup {Entry(SourceVName, <<>>, None, f[1], f[2]) : f \in EntryFacts}

Batches == UNION {[1..n -> Entries] : n \in 0..MaxEntries}

InitSource ==
  /\ PagerIdle
  /\ DecorIdle
  /\ args \in {Some(b) : b \in Batches}
  /\ result = None

\* A call of SourceFromEntries on the batch.
CallSourceFromEntries ==
  /\ args # None
  /\ result = None
  /\ \E iter \in IterationOrders(SourceFromEntries_edges(args[1])) :
       result' = Some([src |-> SourceFromEntries(args[1], iter), rev |-> None])
  /\ UNCHANGED <<args, pagerVars, decorVars>>

\* Source.Node; factOrder is the order in which the facts map was ranged over.
Source_Node(s, factOrder) ==
  [Ticket |-> s.Ticket,
   Fact   |-> Sort("ByName", [i \in 1..Len(factOrder) |->
                                [Name |-> factOrder[i], Value |-> s.Facts[factOrder[i]]]])]

IsTextFact(f) == f.Name \in {TextFact, TextEncodingFact}

KeptFact(f) == ~IsTextFact(f)

\* Variant of FilterTextFacts: only the text fact is removed.
FilterTextFacts_KeepEncoding(n) ==
  [Ticket |-> n.Ticket, Fact |-> SelectSeq(n.Fact, LAMBDA f : f.Name # TextFact)]

\* FilterTextFacts: the node without its text and text encoding facts.
FilterTextFacts(n) == [Ticket |-> n.Ticket, Fact |-> SelectSeq(n.Fact, KeptFact)]

\* The reverse edges PartialReverseEdges appends for one kind.
PartialReverseEdges_kind(kind, targets, targetNode) ==
  [i \in 1..Len(targets) |->
     [Source  |-> [Ticket |-> targets[i].Ticket, Fact |-> <<>>],
      Kind    |-> MirrorEdge(kind),
      Ordinal |-> targets[i].Ordinal,
      Target  |-> Some(targetNode)]]

RECURSIVE PartialReverseEdges_loop(_, _, _, _)
\* The range loop of PartialReverseEdges over src.Edges, kinds in kindOrder.
PartialReverseEdges_loop(srcEdges, kindOrder, targetNode, edges) ==
  IF kindOrder = <<>> THEN edges
  ELSE PartialReverseEdges_loop(srcEdges, Tail(kindOrder), targetNode,
         edges \o PartialReverseEdges_kind(Head(kindOrder), srcEdges[Head(kindOrder)], targetNode))

\* PartialReverseEdges; factOrder and kindOrder are the orders in which the
\* maps of the Source were ranged over.
PartialReverseEdges(src, factOrder, kindOrder) ==
  LET node == Source_Node(src, factOrder)
  IN  PartialReverseEdges_loop(src.Edges, kindOrder, FilterTextFacts(node),
        <<[Source |-> node, Kind |-> <<>>, Ordinal |-> 0, Target |-> None]>>)

\* A call of PartialReverseEdges on the Source made from the batch.
CallPartialReverseEdges ==
  /\ result # None
  /\ result[1].src # None
  /\ result[1].rev = None
  /\ LET src == result[1].src[1]
     IN  \E factOrder \in Enumerations(DOMAIN src.Facts), kindOrder \in Enumerations(DOMAIN src.Edges) :
           result' = Some([result[1] EXCEPT !.rev = Some(PartialReverseEdges(src, factOrder, kindOrder))])
  /\ UNCHANGED <<args, pagerVars, decorVars>>

NextSource == CallSourceFromEntries \/ CallPartialReverseEdges

SpecSource == InitSource /\ [][NextSource]_vars

\* The batch given to SourceFromEntries.
Batch == args[1]

\* SourceFromEntries has returned a Source.
SourceMade == result # None /\ result[1].src # None

TheSource == result[1].src[1]

Triple(kind, ticket, ordinal) == <<kind, ticket, ordinal>>

\* The (base kind, target ticket, ordinal) triples of the batch's edge entries.
BatchTriples ==
  {Triple(ParseOrdinal(Batch[i].EdgeKind).kind,
          kytheuri_ToString(Batch[i].Target[1]),
          ParseOrdinal(Batch[i].EdgeKind).ordinal) :
     i \in {j \in 1..Len(Batch) : Batch[j].EdgeKind # <<>>}}

\* The triples of the Source's edge lists.
SourceTriples ==
  UNION {{Triple(k, TheSource.Edges[k][i].Ticket, TheSource.Edges[k][i].Ordinal) :
            i \in 1..Len(TheSource.Edges[k])} : k \in DOMAIN TheSource.Edges}

\* (ordinal, ticket) of a is strictly before that of b.
OrdinalTicketBefore(a, b) ==
  \/ a.Ordinal < b.Ordinal
  \/ a.Ordinal = b.Ordinal /\ StrLess(a.Ticket, b.Ticket)

EdgeListsSorted ==
  \A k \in DOMAIN TheSource.Edges :
     \A i, j \in 1..Len(TheSource.Edges[k]) :
        i < j => ~OrdinalTicketBefore(TheSource.Edges[k][j], TheSource.Edges[k][i])

NoTripleTwice ==
  \A k \in DOMAIN TheSource.Edges :
     \A i, j \in 1..Len(TheSource.Edges[k]) :
        i # j => TheSource.Edges[k][i] # TheSource.Edges[k][j]

\* Each fact name has the value of the last fact entry of the batch with it.
FactsLastWins ==
  LET ix == {i \in 1..Len(Batch) : Batch[i].EdgeKind = <<>>}
  IN  /\ DOMAIN TheSource.Facts = {Batch[i].FactName : i \in ix}
      /\ \A i \in ix :
           (\A j \in ix : j > i => Batch[j].FactName # Batch[i].FactName)
             => TheSource.Facts[Batch[i].FactName] = Batch[i].FactValue

\* C21: for a non-empty batch SourceFromEntries returns a Source whose
\* per-kind edge lists are sorted ascending by (ordinal, target ticket), in
\* which no (base kind, target ticket, ordinal) triple occurs twice, whose
\* triples are those of the batch's edge entries, and whose facts map each
\* name to the value of the last fact entry with that name; for an empty
\* batch it returns nothing.
C21_SourceFromEntries ==
  result # None =>
    IF Batch = <<>> THEN result[1].src = None
    ELSE /\ SourceMade
         /\ EdgeListsSorted
         /\ NoTripleTwice
         /\ SourceTriples = BatchTriples
         /\ FactsLastWins

\* A batch of three edge entries of one base kind, two of them the same
\* triple, given in descending (ordinal, ticket) order, was made a Source.
C21_Witness ==
  /\ SourceMade
  /\ Len(Batch) = 3
  /\ \A i \in 1..3 : ParseOrdinal(Batch[i].EdgeKind).kind = RefEdge
  /\ ParseOrdinal(Batch[1].EdgeKind).ordinal = 10
  /\ ParseOrdinal(Batch[2].EdgeKind).ordinal = 2
  /\ ParseOrdinal(Batch[3].EdgeKind).ordinal = 0
  /\ Batch[3].EdgeKind = RefEdge
  /\ Cardinality(BatchTriples) = 3
  /\ Len(TheSource.Edges[RefEdge]) = 3
  /\ TheSource.Edges[RefEdge][1].Ordinal = 0

\* PartialReverseEdges has returned the reverse edges of the Source.
ReverseEdgesMade == result # None /\ result[1].rev # None

ReverseEdges == result[1].rev[1]

\* The facts of the Source as name and value pairs, without the given names.
FactsWithout(names) ==
  {[Name |-> n, Value |-> TheSource.Facts[n]] : n \in DOMAIN TheSource.Facts \ names}

\* The node has the Source's ticket and its facts without the given names,
\* each once.
IsNodeWithout(n, names) ==
  /\ n.Ticket = TheSource.Ticket
  /\ {n.Fact[i] : i \in 1..Len(n.Fact)} = FactsWithout(names)
  /\ Len(n.Fact) = Cardinality(FactsWithout(names))

IsHeaderEdge(e) ==
  /\ IsNodeWithout(e.Source, {})
  /\ e.Kind = <<>>
  /\ e.Target = None

\* The edge is the reverse of the triple.
IsReverseOf(e, triple) ==
  /\ e.Source.Ticket = triple[2]
  /\ e.Kind = (IF triple[1][1] = 37 THEN Tail(triple[1]) ELSE <<37>> \o triple[1])
  /\ e.Ordinal = triple[3]
  /\ e.Target # None
  /\ IsNodeWithout(e.Target[1], {"/kythe/text", "/kythe/text/encoding"})

\* C22: PartialReverseEdges returns a list whose first element is a header
\* edge (source = the Source's node, no kind, no target) and whose other
\* elements correspond one to one to the Source's (kind, target, ordinal)
\* triples, each with source ticket = the target ticket, kind = the mirrored
\* kind, the same ordinal, and target = the Source's node without the text
\* and text-encoding facts and with all other facts; a Source with no edges
\* yields exactly the header.
C22_ReverseEdges ==
  ReverseEdgesMade =>
    /\ Len(ReverseEdges) = 1 + Cardinality(SourceTriples)
    /\ IsHeaderEdge(ReverseEdges[1])
    /\ \A t \in SourceTriples :
         Cardinality({i \in 2..Len(ReverseEdges) : IsReverseOf(ReverseEdges[i], t)}) = 1
    /\ \A i \in 2..Len(ReverseEdges) :
         Cardinality({t \in SourceTriples : IsReverseOf(ReverseEdges[i], t)}) = 1

\* A Source with a node kind, a text and an edge was reversed: the header
\* carries the text, the reverse edge's target does not.
C22_Witness ==
  /\ ReverseEdgesMade
  /\ DOMAIN TheSource.Facts = {NodeKindFact, TextFact}
  /\ Len(ReverseEdges) = 2
  /\ Len(ReverseEdges[1].Source.Fact) = 2
  /\ ReverseEdges[2].Kind = <<37>> \o RefEdge
  /\ ReverseEdges[2].Ordinal = 2
  /\ Len(ReverseEdges[2].Target[1].Fact) = 1

\* ---------------------------------------------------------------------------
\* Further properties of the DecorationFragmentBuilder
\* ---------------------------------------------------------------------------

\* Operation i is AddEdge of an edge with a target, received while an anchor
\* is set.
IsAnchoredEdgeOp(i) == IsEdgeOp(i) /\ dops[i].pre.anchor # None

\* Operation i appended the target ticket of its edge to parents and did
\* nothing else.
ParentAppended(i) ==
  /\ PostState(i).parents = Append(dops[i].pre.parents, dops[i].e[1].Target[1].Ticket)
  /\ PostState(i).decor = dops[i].pre.decor
  /\ PostState(i).anchor = dops[i].pre.anchor
  /\ OpCalls(i) = {}

\* The decorations buffered before operation i with the decoration of its
\* edge appended.
WithDecoration(i) ==
  Append(dops[i].pre.decor,
         [Anchor |-> dops[i].pre.anchor[1], Kind |-> dops[i].e[1].Kind, Target |-> dops[i].e[1].Target[1]])

\* Operation i appended the decoration {anchor, kind, target} of its edge to
\* the decorations: they are buffered, or they were emitted to the parents
\* and, unless Output failed, the buffer was emptied.
DecorationAppended(i) ==
  /\ PostState(i).parents = dops[i].pre.parents
  /\ PostState(i).anchor = dops[i].pre.anchor
  /\ \A k \in OpCalls(i) : dout[k].fragment = [File |-> None, Decoration |-> WithDecoration(i)]
  /\ IF dops[i].pre.parents = <<>>
       THEN OpCalls(i) = {} /\ PostState(i).decor = WithDecoration(i)
       ELSE /\ OpCalls(i) # {}
            /\ PostState(i).decor = (IF dops[i].err THEN WithDecoration(i) ELSE <<>>)

\* Operation i changed nothing and made no Output call.
EdgeIgnored(i) == PostState(i) = dops[i].pre /\ OpCalls(i) = {} /\ ~dops[i].err

\* C23 as claimed: for every non-header edge received while an anchor is
\* set, a childof edge to a file appends the target ticket to parents and
\* every other edge, a childof edge to a node that is not a file included,
\* appends a decoration {anchor, kind, target} to the decorations.
C23_AsClaimed ==
  \A i \in 1..Len(dops) :
    IsAnchoredEdgeOp(i) =>
      IF IsChildOfFile(dops[i].e[1]) THEN ParentAppended(i) ELSE DecorationAppended(i)

\* C23: for every non-header edge received while an anchor is set, exactly
\* one of three things happens: a childof edge to a file appends the target
\* ticket to parents; a childof edge to a node that is not a file is ignored;
\* every edge of another kind appends a decoration {anchor, kind, target} to
\* the decorations.
C23_EdgeCases ==
  \A i \in 1..Len(dops) :
    IsAnchoredEdgeOp(i) =>
      IF IsChildOfFile(dops[i].e[1]) THEN ParentAppended(i)
      ELSE IF dops[i].e[1].Kind = ChildOfEdge THEN EdgeIgnored(i)
      ELSE DecorationAppended(i)

\* An anchor received a childof edge to a file, a childof edge to a record
\* and a ref edge.
C23_Witness ==
  \E i, j, k \in 1..Len(dops) :
    /\ IsAnchoredEdgeOp(i) /\ IsChildOfFile(dops[i].e[1])
    /\ IsAnchoredEdgeOp(j) /\ dops[j].e[1].Kind = ChildOfEdge /\ ~IsChildOfFile(dops[j].e[1])
    /\ IsAnchoredEdgeOp(k) /\ dops[k].e[1].Kind = RefEdge
    /\ i < j /\ j < k
    /\ OpCalls(k) # {}

\* The Output calls of operation i that carry decorations.
DecorationCalls(i) == {c \in OpCalls(i) : dout[c].fragment.File = None}

\* The keys of the decoration calls of operation i, in call order.
EmittedTo(i) ==
  [x \in 1..Cardinality(DecorationCalls(i)) |-> dout[dops[i].from + x].file]

\* The decorations carried by the decoration calls of operation i.
EmittedBy(i) ==
  UNION {{dout[c].fragment.Decoration[j] : j \in 1..Len(dout[c].fragment.Decoration)} :
           c \in DecorationCalls(i)}

\* Operation m follows operation i in the same group (m may be the header
\* edge or Flush that ends the group).
LaterInGroup(i, m) == i < m /\ ~IsHeaderOp(i + 1) /\ \A x \in (i + 1)..(m - 1) : ~IsHeaderOp(x)

\* Every operation that emits decorations emits them to the parents recorded
\* at that moment, each once, in their order.
EmittedToRecordedParents ==
  \A i \in 1..Len(dops) : DecorationCalls(i) # {} => EmittedTo(i) = dops[i].pre.parents

\* A file parent added by a childof edge after an emission never receives a
\* decoration of that emission.
LaterParentNeverReceives ==
  \A i, k, m \in 1..Len(dops) :
    (/\ IsAnchoredEdgeOp(i) /\ DecorationCalls(i) # {}
     /\ IsAnchoredEdgeOp(k) /\ IsChildOfFile(dops[k].e[1])
     /\ LaterInGroup(i, k) /\ LaterInGroup(k, m))
    => \A c \in DecorationCalls(m) :
          dout[c].file = dops[k].e[1].Target[1].Ticket =>
            \A j \in 1..Len(dout[c].fragment.Decoration) :
               dout[c].fragment.Decoration[j] \notin EmittedBy(i)

\* Every parent recorded before an edge that makes a decoration receives
\* that decoration in the same call of AddEdge.
EarlierParentsReceive ==
  \A m \in 1..Len(dops) :
    (IsAnchoredEdgeOp(m) /\ dops[m].e[1].Kind # ChildOfEdge) =>
      \A p \in 1..Len(dops[m].pre.parents) :
        \E c \in DecorationCalls(m) :
          /\ dout[c].file = dops[m].pre.parents[p]
          /\ dout[c].fragment.Decoration[Len(dout[c].fragment.Decoration)]
               = WithDecoration(m)[Len(WithDecoration(m))]

C25_OneAnchor ==
  /\ anchor = None => (decor = <<>> /\ parents = <<>>)
  /\ \A j \in 1..Len(decor) : anchor # None /\ decor[j].Anchor = anchor[1]
  /\ \A i \in 1..Len(dops) : IsFlushOp(i) => PostState(i) = EmptyBuilder

\* Flush returned an error while decorations of an anchor were buffered.
C25_Witness ==
  \E i \in 1..Len(dops) :
    /\ IsFlushOp(i)
    /\ dops[i].err
    /\ dops[i].pre.anchor # None
    /\ dops[i].pre.decor # <<>>
    /\ Len(dops[i].pre.parents) = 2

\* Output failed while operation i, AddEdge of an edge that makes a
\* decoration, was emitting to the parents.
FailedEmission(i) == IsAnchoredEdgeOp(i) /\ dops[i].err

\* After operation i the builder holds the anchor and parents it had and the
\* decorations it had with the one of the edge.
KeptAfter(i) ==
  PostState(i) = [dops[i].pre EXCEPT !.decor = WithDecoration(i)]

\* Operation f flushes: Flush, or AddEdge of a header edge.
FlushesAt(f) == IsFlushOp(f) \/ IsHeaderOp(f)

\* Operation f emits what is buffered: a flush, or AddEdge of an edge that
\* makes a decoration while parents are recorded.
EmitsAt(f) ==
  \/ FlushesAt(f)
  \/ IsAnchoredEdgeOp(f) /\ dops[f].e[1].Kind # ChildOfEdge /\ dops[f].pre.parents # <<>>

\* Operation f made an Output call for every parent recorded before it, each
\* carrying all the decorations in ds.
DeliveryAttempted(f, ds) ==
  \A p \in 1..Len(dops[f].pre.parents) :
    \E c \in DecorationCalls(f) :
      /\ dout[c].file = dops[f].pre.parents[p]
      /\ \A j \in 1..Len(ds) :
           \E x \in 1..Len(dout[c].fragment.Decoration) : dout[c].fragment.Decoration[x] = ds[j]

\* The decorations in the buffer while operation i runs.
BufferedAt(i) ==
  IF IsAnchoredEdgeOp(i) /\ dops[i].e[1].Kind # ChildOfEdge THEN WithDecoration(i) ELSE dops[i].pre.decor

\* A decoration leaves the buffer only in an operation that made an Output
\* call carrying it for every recorded parent, or in a flush that failed.
NoDiscardWithoutAttempt ==
  \A i \in 1..Len(dops) :
    \A j \in 1..Len(BufferedAt(i)) :
      (\A k \in 1..Len(PostState(i).decor) : PostState(i).decor[k] # BufferedAt(i)[j])
        => \/ DeliveryAttempted(i, <<BufferedAt(i)[j]>>)
           \/ FlushesAt(i) /\ dops[i].err

OutputPageFailed ==
  \E i \in 1..Len(last.cb) : last.cb[i].fn = "OutputPage" /\ ~last.cb[i].ok

\* The page keys of a page index, in order.
IndexKeys(idx) == [i \in 1..Len(idx) |-> idx[i].PageKey]

\* The page keys of a list of pages, in order.
PageKeys(pgs) == [i \in 1..Len(pgs) |-> pgs[i].PageKey]

\* C26: in the EdgeSetBuilder a page-index entry is appended only after the
\* OutputPage callback succeeded for its page: when OutputPage returns an
\* error, AddGroup returns an error, the page index of the set is the one of
\* the pages emitted successfully so far and the next page takes the failed
\* page's ordinal, so every page-index entry of an emitted PagedEdgeSet
\* refers to a successfully emitted EdgePage.
C26_IndexAfterOutput ==
  builder = EdgeSetBuilder =>
    /\ (last.op = "AddGroup" /\ OutputPageFailed) => last.err
    /\ (pager # None /\ pager[1].curSet # None) =>
          IndexKeys(pager[1].curSet[1].PageIndex) = PageKeys(pages)
    /\ \A i \in 1..Len(pages) : pages[i].PageKey = newPageKey(pages[i].SourceTicket, i - 1)
    /\ done # None =>
          \A j \in 1..Len(done[1].set.PageIndex) :
             \E i \in 1..Len(done[1].pages) :
                /\ done[1].pages[i].PageKey = done[1].set.PageIndex[j].PageKey
                /\ done[1].pages[i].EdgesGroup.Kind = done[1].set.PageIndex[j].EdgeKind

\* A PagedEdgeSet was emitted after a run in which one OutputPage call
\* failed and at least one succeeded.
C26_Witness ==
  /\ builder = EdgeSetBuilder
  /\ done # None
  /\ done[1].failed
  /\ Len(done[1].pages) >= 1
  /\ Len(done[1].set.PageIndex) = Len(done[1].pages)

====
